---- MODULE Spec2Model ----
(***************************************************************************)
(* A model of the oaaclient payload builders (oaaclient/templates.py and   *)
(* oaaclient/structures.py): CustomApplication, CustomIdPProvider and      *)
(* HRISProvider with the entities they own.                                *)
(*                                                                         *)
(* A Python string is a sequence of one-character strings, so that         *)
(* str.lower(), string concatenation and the property-name pattern are     *)
(* computed and not assumed.  A Python value is a record [t, v]: its type  *)
(* tag and its content as a string.  A Python dict is the sequence of its  *)
(* entries [k, v] in insertion order.                                      *)
(***************************************************************************)
EXTENDS Integers, Sequences, FiniteSets, TLC

VARIABLES
    local_users,        \* CustomApplication.local_users
    local_groups,       \* CustomApplication.local_groups
    local_roles,        \* CustomApplication.local_roles
    idp_identities,     \* CustomApplication.idp_identities
    access_creds,       \* CustomApplication.access_creds
    resources,          \* CustomApplication.resources (sub_resources nested)
    custom_permissions, \* CustomApplication.custom_permissions
    app_tags,           \* CustomApplication.tags
    app_properties,     \* CustomApplication.properties
    property_definitions, \* CustomApplication.property_definitions
    idp_users,          \* CustomIdPProvider.users
    idp_groups,         \* CustomIdPProvider.groups
    idp_apps,           \* CustomIdPProvider.apps
    idp_domain,         \* CustomIdPProvider.domain
    idp_property_definitions, \* CustomIdPProvider.property_definitions
    hris_employees,     \* HRISProvider.employees
    hris_groups,        \* HRISProvider.groups
    hris_property_definitions, \* HRISProvider.property_definitions
    payload,            \* the document the last get_payload call returned
    entities,           \* a CaseInsensitiveDict on its own (structures.py)
    operations,         \* the operations applied to that dict since it was made
    requests,           \* OAAClient: the HTTP requests the last client call sent
    server,             \* the Veza tenant: its providers and their data sources
    result,             \* the last call: its name, arguments and outcome
    calls               \* number of calls made so far

appVars == <<local_users, local_groups, local_roles, idp_identities, access_creds,
             resources, custom_permissions, app_tags, app_properties,
             property_definitions>>
idpVars == <<idp_users, idp_groups, idp_apps, idp_domain, idp_property_definitions>>
hrisVars == <<hris_employees, hris_groups, hris_property_definitions>>
dictVars == <<entities, operations>>
clientVars == <<requests, server>>
vars == <<appVars, idpVars, hrisVars, payload, dictVars, clientVars, result, calls>>

---------------------------------------------------------------------------
(* Python values *)

PyNone == [t |-> "none", v |-> <<>>]
PyStr(s) == [t |-> "str", v |-> s]
PyTrue == [t |-> "bool", v |-> <<"T">>]
PyFalse == [t |-> "bool", v |-> <<>>]

\* bool(x): None, "", False are falsy
Truthy(x) == x.t # "none" /\ x.v # <<>> /\ ~(x.t = "int" /\ x.v = <<"0">>)

UpperLetters == <<"A","B","C","D","E","F","G","H","I","J","K","L","M",
                  "N","O","P","Q","R","S","T","U","V","W","X","Y","Z">>
LowerLetters == <<"a","b","c","d","e","f","g","h","i","j","k","l","m",
                  "n","o","p","q","r","s","t","u","v","w","x","y","z">>

LowerChar(c) ==
    IF \E i \in 1..Len(UpperLetters) : UpperLetters[i] = c
    THEN LowerLetters[CHOOSE i \in 1..Len(UpperLetters) : UpperLetters[i] = c]
    ELSE c

\* str.lower()
Lower(s) == [i \in 1..Len(s) |-> LowerChar(s[i])]

\* str(x) of a value that is a string or None
str(x) == IF x.t = "none" THEN PyStr(<<"N","o","n","e">>) ELSE PyStr(x.v)

---------------------------------------------------------------------------
(* dict *)

DictKeys(d) == [i \in 1..Len(d) |-> d[i].k]
DictValues(d) == [i \in 1..Len(d) |-> d[i].v]
DictContains(d, k) == \E i \in 1..Len(d) : d[i].k = k
DictIndex(d, k) == CHOOSE i \in 1..Len(d) : d[i].k = k
DictGet(d, k) == d[DictIndex(d, k)].v
\* d[k] = v: an existing key keeps its position
DictSet(d, k, v) ==
    IF DictContains(d, k)
    THEN [d EXCEPT ![DictIndex(d, k)] = [k |-> k, v |-> v]]
    ELSE Append(d, [k |-> k, v |-> v])

\* mutant: the key is used as given
lower_key_as_given(key) == key

(* CaseInsensitiveDict: key.lower() when the key has lower() (str, bytes), *)
(* else the key                                                           *)
lower_key(key) == IF key.t \in {"str", "bytes"} THEN [t |-> key.t, v |-> Lower(key.v)] ELSE key

\* mutant: writing an existing key moves it to the end
CaseInsensitiveDict_setitem_moved(d, key, value) ==
    Append(SelectSeq(d, LAMBDA e : e.k # lower_key(key)), [k |-> lower_key(key), v |-> value])

\* _entities maps the lower-cased key to the tuple (lower-cased key, value);
\* an entry [k, v] here stands for the dict key k and the tuple (k, v)
CaseInsensitiveDict_contains(d, key) == DictContains(d, lower_key(key))
CaseInsensitiveDict_getitem(d, key) == DictGet(d, lower_key(key))
CaseInsensitiveDict_setitem(d, key, value) == DictSet(d, lower_key(key), value)
\* del self._entities[key], for a key that is present
CaseInsensitiveDict_delitem(d, key) == SelectSeq(d, LAMBDA e : e.k # lower_key(key))
\* (key for key, value in self._entities.values())
CaseInsensitiveDict_iter(d) == [i \in 1..Len(d) |-> d[i].k]
CaseInsensitiveDict_len(d) == Len(d)
\* Mapping.get: self[key], or the default on KeyError
CaseInsensitiveDict_get(d, key, default) ==
    IF CaseInsensitiveDict_contains(d, key) THEN CaseInsensitiveDict_getitem(d, key) ELSE default

---------------------------------------------------------------------------
(* Outcome of a call *)

\* a Veza tenant with no provider
NoTenant == [providers |-> {}, data_sources |-> {}]

NoError == [type |-> "", message |-> "", arg |-> PyNone]
\* an exception; its message is the f-string `message` with `arg` substituted
Exc(type, message, arg) == [type |-> type, message |-> message, arg |-> arg]
Return(op, args) == [op |-> op, args |-> args, ok |-> TRUE, error |-> NoError]
Raise(op, args, e) == [op |-> op, args |-> args, ok |-> FALSE, error |-> e]

---------------------------------------------------------------------------
(* Bounds of the model *)

\* calls made on the builders in one run of SpecAdd
MaxAddCalls == 3
\* length of the longest path to a resource that may get a sub-resource
MaxDepth == 1

---------------------------------------------------------------------------
(* Entities *)

EmptyList == <<>>
EmptyDict == <<>>

\* Identity.__init__
Identity(name, identity_type, unique_id, defs) ==
    [name |-> name,
     unique_id |-> IF Truthy(unique_id) THEN str(unique_id) ELSE PyNone,
     identity_type |-> identity_type,
     application_permissions |-> EmptyList,
     resource_permissions |-> EmptyDict,
     role_assignments |-> EmptyDict,
     property_definitions |-> defs,
     properties |-> EmptyDict,
     tags |-> EmptyList]

\* LocalUser.__init__, called with identities=None and groups=None
\* (append_helper(None, None) is None)
LocalUser(name, unique_id, defs) ==
    Identity(name, "local_user", unique_id, defs)
        @@ [identities |-> PyNone, groups |-> PyNone, access_creds |-> EmptyList]

\* LocalGroup.__init__, called with identities=None
LocalGroup(name, unique_id, defs) ==
    Identity(name, "local_group", unique_id, defs)
        @@ [identities |-> PyNone, groups |-> EmptyList]

\* IdPIdentity.__init__: no unique_id and no property definitions
IdPIdentity(name) == Identity(name, "idp", PyNone, "None")

\* AccessCred.__init__ (after its two emptiness checks)
AccessCred(unique_id, name, defs) ==
    Identity(name, "local_access_creds", unique_id, defs)

\* LocalRole.__init__ with permissions a list (possibly empty) of names
LocalRole(name, permissions, unique_id, defs) ==
    [name |-> name,
     unique_id |-> IF Truthy(unique_id) THEN str(unique_id) ELSE PyNone,
     permissions |-> permissions,
     property_definitions |-> defs,
     properties |-> EmptyDict,
     roles |-> EmptyList,
     tags |-> EmptyList]

\* CustomResource.__init__
CustomResource(name, resource_type, resource_key, defs, unique_id) ==
    [name |-> name,
     unique_id |-> IF Truthy(unique_id) THEN str(unique_id) ELSE PyNone,
     resource_type |-> resource_type,
     resource_key |-> IF Truthy(resource_key) THEN str(resource_key)
                      ELSE IF Truthy(unique_id) THEN str(unique_id)
                      ELSE str(name),
     sub_resources |-> EmptyDict,
     connections |-> EmptyList,
     property_definitions |-> defs,
     properties |-> EmptyDict,
     tags |-> EmptyList]

\* the members of OAAPermission
OAAPermission == {"DataRead", "DataWrite", "DataCreate", "DataDelete",
                  "MetadataRead", "MetadataWrite", "MetadataCreate",
                  "MetadataDelete", "NonData", "Uncategorized"}

\* A `permissions` argument: a list ("list"), a single enum member ("enum"),
\* None ("none") or something else ("other"); items are enum member names or
\* other names.
PermArg(kind, items) == [kind |-> kind, items |-> items]

\* CustomPermission.__validate_permissions: the permission_type it stores
\* (for None the [] set by __init__), or "error" when it raises
validate_permissions(permissions) ==
    IF permissions.kind = "none" THEN <<>>
    ELSE IF permissions.kind = "list"
    THEN IF \A i \in 1..Len(permissions.items) : permissions.items[i] \in OAAPermission
         THEN permissions.items ELSE <<"error">>
    ELSE IF permissions.kind = "enum" /\ permissions.items[1] \in OAAPermission
    THEN <<permissions.items[1]>>
    ELSE <<"error">>

\* CustomPermission.__init__ (when __validate_permissions does not raise)
CustomPermission(name, permissions, apply_to_sub_resources, resource_types) ==
    [name |-> name,
     permission_type |-> validate_permissions(permissions),
     apply_to_sub_resources |-> apply_to_sub_resources,
     resource_types |-> resource_types]

---------------------------------------------------------------------------
(* Paths into the resource tree: the sequence of dict keys from the       *)
(* application's resources down to a (sub-)resource.                      *)

RECURSIVE ResourcePaths(_)
ResourcePaths(d) ==
    UNION { {<<d[i].k>>} \cup { <<d[i].k>> \o p : p \in ResourcePaths(d[i].v.sub_resources) }
            : i \in 1..Len(d) }

RECURSIVE ResourceAt(_, _)
ResourceAt(d, path) ==
    IF Len(path) = 1 THEN DictGet(d, path[1])
    ELSE ResourceAt(DictGet(d, path[1]).sub_resources, Tail(path))

RECURSIVE ReplaceResourceAt(_, _, _)
ReplaceResourceAt(d, path, r) ==
    IF Len(path) = 1 THEN DictSet(d, path[1], r)
    ELSE DictSet(d, path[1],
                 [DictGet(d, path[1]) EXCEPT
                    !.sub_resources = ReplaceResourceAt(@, Tail(path), r)])

\* every resource and sub-resource of the application
AllResources == { ResourceAt(resources, p) : p \in ResourcePaths(resources) }

---------------------------------------------------------------------------
(* CustomApplication: the add_* builders *)

\* `if unique_id: identifier = unique_id else: identifier = name`
Identifier(unique_id, name) == IF Truthy(unique_id) THEN unique_id ELSE name

Step(r) == /\ result' = r
           /\ calls' = calls + 1
           /\ UNCHANGED <<payload, dictVars, clientVars>>

add_local_user(name, unique_id) ==
    LET identifier == Identifier(unique_id, name)
        args == [name |-> name, unique_id |-> unique_id, identifier |-> identifier]
    IN
    /\ IF CaseInsensitiveDict_contains(local_users, identifier)
       THEN /\ Step(Raise("add_local_user", args,
                     Exc("OAATemplateException", "Local user identified by {identifier} already defined", identifier)))
            /\ UNCHANGED local_users
       ELSE /\ local_users' = CaseInsensitiveDict_setitem(local_users, identifier,
                                 LocalUser(name, unique_id, "application"))
            /\ Step(Return("add_local_user", args))
    /\ UNCHANGED <<local_groups, local_roles, idp_identities, access_creds, resources,
                   custom_permissions, app_tags, app_properties, property_definitions>>
    /\ UNCHANGED <<idpVars, hrisVars>>

add_local_group(name, unique_id) ==
    LET identifier == Identifier(unique_id, name)
        args == [name |-> name, unique_id |-> unique_id, identifier |-> identifier]
    IN
    /\ IF CaseInsensitiveDict_contains(local_groups, identifier)
       THEN /\ Step(Raise("add_local_group", args,
                     Exc("OAATemplateException", "Local group identified by {identifier} already defined", identifier)))
            /\ UNCHANGED local_groups
       ELSE /\ local_groups' = CaseInsensitiveDict_setitem(local_groups, identifier,
                                 LocalGroup(name, unique_id, "application"))
            /\ Step(Return("add_local_group", args))
    /\ UNCHANGED <<local_users, local_roles, idp_identities, access_creds, resources,
                   custom_permissions, app_tags, app_properties, property_definitions>>
    /\ UNCHANGED <<idpVars, hrisVars>>

add_local_role(name, permissions, unique_id) ==
    LET identifier == Identifier(unique_id, name)
        args == [name |-> name, unique_id |-> unique_id, identifier |-> identifier]
    IN
    /\ IF CaseInsensitiveDict_contains(local_roles, identifier)
       THEN /\ Step(Raise("add_local_role", args,
                     Exc("Exception", "Local role identified by {identifier} already defined", identifier)))
            /\ UNCHANGED local_roles
       ELSE /\ local_roles' = CaseInsensitiveDict_setitem(local_roles, identifier,
                                 LocalRole(name, permissions, unique_id, "application"))
            /\ Step(Return("add_local_role", args))
    /\ UNCHANGED <<local_users, local_groups, idp_identities, access_creds, resources,
                   custom_permissions, app_tags, app_properties, property_definitions>>
    /\ UNCHANGED <<idpVars, hrisVars>>

add_idp_identity(name) ==
    LET args == [name |-> name, unique_id |-> PyNone, identifier |-> name]
    IN
    /\ IF CaseInsensitiveDict_contains(idp_identities, name)
       THEN /\ Step(Raise("add_idp_identity", args,
                     Exc("OAATemplateException", "IdP Identity {name} already defined", name)))
            /\ UNCHANGED idp_identities
       ELSE /\ idp_identities' = CaseInsensitiveDict_setitem(idp_identities, name, IdPIdentity(name))
            /\ Step(Return("add_idp_identity", args))
    /\ UNCHANGED <<local_users, local_groups, local_roles, access_creds, resources,
                   custom_permissions, app_tags, app_properties, property_definitions>>
    /\ UNCHANGED <<idpVars, hrisVars>>

add_access_cred(unique_id, name) ==
    LET args == [name |-> name, unique_id |-> unique_id, identifier |-> unique_id]
    IN
    /\ IF CaseInsensitiveDict_contains(access_creds, unique_id)
       THEN /\ Step(Raise("add_access_cred", args,
                     Exc("OAATemplateException", "Access credential identified by {unique_id} already exists", unique_id)))
            /\ UNCHANGED access_creds
       ELSE IF ~Truthy(unique_id)
       THEN /\ Step(Raise("add_access_cred", args, Exc("ValueError", "Unique ID cannot be empty", PyNone)))
            /\ UNCHANGED access_creds
       ELSE IF ~Truthy(name)
       THEN /\ Step(Raise("add_access_cred", args, Exc("ValueError", "Name cannot be empty", PyNone)))
            /\ UNCHANGED access_creds
       ELSE /\ access_creds' = CaseInsensitiveDict_setitem(access_creds, unique_id,
                                 AccessCred(unique_id, name, "application"))
            /\ Step(Return("add_access_cred", args))
    /\ UNCHANGED <<local_users, local_groups, local_roles, idp_identities, resources,
                   custom_permissions, app_tags, app_properties, property_definitions>>
    /\ UNCHANGED <<idpVars, hrisVars>>

add_resource(name, resource_type, unique_id) ==
    LET identifier == Identifier(unique_id, name)
        args == [name |-> name, unique_id |-> unique_id, identifier |-> identifier]
    IN
    /\ IF CaseInsensitiveDict_contains(resources, identifier)
       THEN /\ Step(Raise("add_resource", args,
                     Exc("OAATemplateException", "Resource identified by {identifier} already defined", identifier)))
            /\ UNCHANGED resources
       ELSE /\ resources' = CaseInsensitiveDict_setitem(resources, identifier,
                                 CustomResource(name, resource_type, PyNone, "application", unique_id))
            /\ Step(Return("add_resource", args))
    /\ UNCHANGED <<local_users, local_groups, local_roles, idp_identities, access_creds,
                   custom_permissions, app_tags, app_properties, property_definitions>>
    /\ UNCHANGED <<idpVars, hrisVars>>

\* mutant: the key of a sub-resource leaves out the key of its parent
sub_resource_key_unqualified(self, identifier) == str(identifier)

\* sub_resource_key = f"{self.resource_key}.{identifier}"
sub_resource_key_of(self, identifier) ==
    PyStr(self.resource_key.v \o <<".">> \o str(identifier).v)

\* CustomResource.add_sub_resource on the resource at `path`
add_sub_resource(path, name, resource_type, unique_id) ==
    LET self == ResourceAt(resources, path)
        identifier == Identifier(unique_id, name)
        sub_resource_key == sub_resource_key_of(self, identifier)
        args == [name |-> name, unique_id |-> unique_id, identifier |-> identifier, path |-> path]
    IN
    /\ Len(path) <= MaxDepth
    /\ IF CaseInsensitiveDict_contains(self.sub_resources, identifier)
       THEN /\ Step(Raise("add_sub_resource", args,
                     Exc("Exception", "Sub-resource identified by {identifier} already defined", identifier)))
            /\ UNCHANGED resources
       ELSE /\ resources' = ReplaceResourceAt(resources, path,
                  [self EXCEPT !.sub_resources =
                      CaseInsensitiveDict_setitem(@, identifier,
                          CustomResource(name, resource_type, sub_resource_key,
                                         self.property_definitions, unique_id))])
            /\ Step(Return("add_sub_resource", args))
    /\ UNCHANGED <<local_users, local_groups, local_roles, idp_identities, access_creds,
                   custom_permissions, app_tags, app_properties, property_definitions>>
    /\ UNCHANGED <<idpVars, hrisVars>>

add_custom_permission(name, permissions, apply_to_sub_resources, resource_types) ==
    LET args == [name |-> name, unique_id |-> PyNone, identifier |-> name,
                 permissions |-> permissions]
    IN
    /\ IF CaseInsensitiveDict_contains(custom_permissions, name)
       THEN /\ Step(Raise("add_custom_permission", args,
                     Exc("OAATemplateException", "Custom permission {name} already exists", name)))
            /\ UNCHANGED custom_permissions
       ELSE IF permissions.kind # "list"
       THEN /\ Step(Raise("add_custom_permission", args,
                     Exc("OAATemplateException", "permissions must be list", PyNone)))
            /\ UNCHANGED custom_permissions
       ELSE IF ~(\A i \in 1..Len(permissions.items) : permissions.items[i] \in OAAPermission)
       THEN /\ Step(Raise("add_custom_permission", args,
                     Exc("OAATemplateException", "permission must be of type OAAPermission", PyNone)))
            /\ UNCHANGED custom_permissions
       ELSE /\ custom_permissions' = CaseInsensitiveDict_setitem(custom_permissions, name,
                  CustomPermission(name, permissions, apply_to_sub_resources,
                                   IF resource_types # <<>> THEN resource_types ELSE EmptyList))
            /\ Step(Return("add_custom_permission", args))
    /\ UNCHANGED <<local_users, local_groups, local_roles, idp_identities, access_creds,
                   resources, app_tags, app_properties, property_definitions>>
    /\ UNCHANGED <<idpVars, hrisVars>>

\* CustomApplication.define_custom_permission with a CustomPermission object
\* built from (name, permissions) by its constructor
define_custom_permission(name, permissions) ==
    LET args == [name |-> name, unique_id |-> PyNone, identifier |-> name,
                 permissions |-> permissions]
    IN
    /\ IF validate_permissions(permissions) = <<"error">>
       THEN /\ Step(Raise("CustomPermission", args,
                     Exc("OAATemplateException", "Custom permissions must be OAAPermission enum", PyNone)))
            /\ UNCHANGED custom_permissions
       ELSE IF CaseInsensitiveDict_contains(custom_permissions, name)
       THEN /\ Step(Raise("define_custom_permission", args,
                     Exc("OAATemplateException", "Custom permission {custom_permission.name} already defined", name)))
            /\ UNCHANGED custom_permissions
       ELSE /\ custom_permissions' = CaseInsensitiveDict_setitem(custom_permissions, name,
                  CustomPermission(name, permissions, FALSE, EmptyList))
            /\ Step(Return("define_custom_permission", args))
    /\ UNCHANGED <<local_users, local_groups, local_roles, idp_identities, access_creds,
                   resources, app_tags, app_properties, property_definitions>>
    /\ UNCHANGED <<idpVars, hrisVars>>

---------------------------------------------------------------------------
(* CustomIdPProvider *)

\* CustomIdPUser.__init__
CustomIdPUser(name, email, full_name, identity, defs) ==
    [name |-> name, email |-> email, full_name |-> full_name, identity |-> identity,
     _source_identity |-> PyNone,
     _groups |-> EmptyDict,
     _assumed_roles |-> EmptyDict,
     _tags |-> EmptyList,
     _properties |-> EmptyDict,
     _property_definitions |-> defs,
     _app_assignments |-> EmptyDict]

\* CustomIdPGroup.__init__
CustomIdPGroup(name, full_name, identity, defs) ==
    [name |-> name, full_name |-> full_name, identity |-> identity,
     _groups |-> EmptyDict,
     _assumed_roles |-> EmptyDict,
     _tags |-> EmptyList,
     _properties |-> EmptyDict,
     _property_definitions |-> defs,
     _app_assignments |-> EmptyDict]

\* CustomIdPApp.__init__
CustomIdPApp(id, name, defs) ==
    [id |-> id, name |-> name,
     _assumed_roles |-> EmptyDict,
     _tags |-> EmptyList,
     _properties |-> EmptyDict,
     _property_definitions |-> defs]

\* CustomIdPDomain.__init__
CustomIdPDomain(name, defs) ==
    [name |-> name, _tags |-> EmptyList, _properties |-> EmptyDict,
     _property_definitions |-> defs]

CustomIdPProvider_add_user(name, identity) ==
    LET identifier == Identifier(identity, name)
        args == [name |-> name, unique_id |-> identity, identifier |-> identifier]
    IN
    /\ IF CaseInsensitiveDict_contains(idp_users, identifier)
       THEN /\ Step(Raise("CustomIdPProvider.add_user", args,
                     Exc("OAATemplateException", "IdP user identified by {identifier} already defined", identifier)))
            /\ UNCHANGED idp_users
       ELSE /\ idp_users' = CaseInsensitiveDict_setitem(idp_users, identifier,
                                 CustomIdPUser(name, PyNone, PyNone, identity, "idp"))
            /\ Step(Return("CustomIdPProvider.add_user", args))
    /\ UNCHANGED <<idp_groups, idp_apps, idp_domain, idp_property_definitions>>
    /\ UNCHANGED <<appVars, hrisVars>>

CustomIdPProvider_add_group(name, identity) ==
    LET identifier == Identifier(identity, name)
        args == [name |-> name, unique_id |-> identity, identifier |-> identifier]
    IN
    /\ IF CaseInsensitiveDict_contains(idp_groups, identifier)
       THEN /\ Step(Raise("CustomIdPProvider.add_group", args,
                     Exc("OAATemplateException", "IdP group {identifier} already defined", identifier)))
            /\ UNCHANGED idp_groups
       ELSE /\ idp_groups' = CaseInsensitiveDict_setitem(idp_groups, identifier,
                                 CustomIdPGroup(name, PyNone, identity, "idp"))
            /\ Step(Return("CustomIdPProvider.add_group", args))
    /\ UNCHANGED <<idp_users, idp_apps, idp_domain, idp_property_definitions>>
    /\ UNCHANGED <<appVars, hrisVars>>

CustomIdPProvider_add_app(id, name) ==
    LET args == [name |-> name, unique_id |-> id, identifier |-> id]
    IN
    /\ IF CaseInsensitiveDict_contains(idp_apps, id)
       THEN /\ Step(Raise("CustomIdPProvider.add_app", args,
                     Exc("OAATemplateException", "IdP App with ID {id} already defined", id)))
            /\ UNCHANGED idp_apps
       ELSE /\ idp_apps' = CaseInsensitiveDict_setitem(idp_apps, id, CustomIdPApp(id, name, "idp"))
            /\ Step(Return("CustomIdPProvider.add_app", args))
    /\ UNCHANGED <<idp_users, idp_groups, idp_domain, idp_property_definitions>>
    /\ UNCHANGED <<appVars, hrisVars>>

---------------------------------------------------------------------------
(* HRISProvider *)

\* mutant: employment_status is not looked at
HRISEmployee_error_status_unchecked(unique_id, name, employee_number, first_name, last_name, is_active, employment_status) ==
    IF ~Truthy(unique_id) THEN "unique_id cannot be empty"
    ELSE IF ~Truthy(name) THEN "name cannot be empty"
    ELSE IF ~Truthy(employee_number) THEN "employee_number cannot be empty"
    ELSE IF ~Truthy(first_name) THEN "first_name cannot be empty"
    ELSE IF ~Truthy(last_name) THEN "last_name cannot be empty"
    ELSE IF is_active.t # "bool" THEN "is_active must be boolean type"
    ELSE ""

\* HRISEmployee.__init__: the message of the ValueError it raises, "" if none
HRISEmployee_error(unique_id, name, employee_number, first_name, last_name, is_active, employment_status) ==
    IF ~Truthy(unique_id) THEN "unique_id cannot be empty"
    ELSE IF ~Truthy(name) THEN "name cannot be empty"
    ELSE IF ~Truthy(employee_number) THEN "employee_number cannot be empty"
    ELSE IF ~Truthy(first_name) THEN "first_name cannot be empty"
    ELSE IF ~Truthy(last_name) THEN "last_name cannot be empty"
    ELSE IF ~Truthy(employment_status) THEN "employment_status cannot be empty"
    ELSE IF is_active.t # "bool" THEN "is_active must be boolean type"
    ELSE ""

\* HRISEmployee.__init__ when it raises nothing
HRISEmployee(unique_id, name, employee_number, first_name, last_name, is_active, employment_status) ==
    [unique_id |-> unique_id, name |-> name, employee_number |-> employee_number,
     first_name |-> first_name, last_name |-> last_name,
     employment_status |-> employment_status, is_active |-> is_active,
     managers |-> EmptyList, groups |-> EmptyList,
     _property_definitions |-> "None",
     custom_properties |-> EmptyDict]

\* HRISGroup.__init__
HRISGroup(unique_id, name, group_type) ==
    [unique_id |-> unique_id, name |-> name, group_type |-> group_type,
     _property_definitions |-> "None",
     custom_properties |-> EmptyDict]

\* the arguments of an HRISEmployee construction
EmployeeArgs(unique_id, name, employee_number, first_name, last_name, is_active, employment_status) ==
    [name |-> name, unique_id |-> unique_id, identifier |-> unique_id,
     employee_number |-> employee_number, first_name |-> first_name, last_name |-> last_name,
     is_active |-> is_active, employment_status |-> employment_status]

\* HRISEmployee(...) constructed on its own
HRISEmployee_init(unique_id, name, employee_number, first_name, last_name, is_active, employment_status) ==
    LET args == EmployeeArgs(unique_id, name, employee_number, first_name, last_name,
                             is_active, employment_status)
        error == HRISEmployee_error(unique_id, name, employee_number, first_name,
                                    last_name, is_active, employment_status)
    IN
    /\ IF error # ""
       THEN Step(Raise("HRISEmployee", args, Exc("ValueError", error, PyNone)))
       ELSE Step(Return("HRISEmployee", args))
    /\ UNCHANGED <<appVars, idpVars, hrisVars>>

HRISProvider_add_employee(unique_id, name, employee_number, first_name, last_name, is_active, employment_status) ==
    LET args == EmployeeArgs(unique_id, name, employee_number, first_name, last_name,
                             is_active, employment_status)
        error == HRISEmployee_error(unique_id, name, employee_number, first_name,
                                    last_name, is_active, employment_status)
    IN
    /\ IF CaseInsensitiveDict_contains(hris_employees, unique_id)
       THEN /\ Step(Raise("HRISProvider.add_employee", args,
                     Exc("OAATemplateException", "Employee with unique ID already exists, {unique_id}", unique_id)))
            /\ UNCHANGED hris_employees
       ELSE IF error # ""
       THEN /\ Step(Raise("HRISProvider.add_employee", args, Exc("ValueError", error, PyNone)))
            /\ UNCHANGED hris_employees
       ELSE /\ hris_employees' = CaseInsensitiveDict_setitem(hris_employees, unique_id,
                  [HRISEmployee(unique_id, name, employee_number, first_name, last_name,
                                is_active, employment_status)
                      EXCEPT !._property_definitions = "employee_properties"])
            /\ Step(Return("HRISProvider.add_employee", args))
    /\ UNCHANGED <<hris_groups, hris_property_definitions>>
    /\ UNCHANGED <<appVars, idpVars>>

HRISProvider_add_group(unique_id, name, group_type) ==
    LET args == [name |-> name, unique_id |-> unique_id, identifier |-> unique_id]
    IN
    /\ IF CaseInsensitiveDict_contains(hris_groups, unique_id)
       THEN /\ Step(Raise("HRISProvider.add_group", args,
                     Exc("OAATemplateException", "Group with unique ID already exists, {unique_id}", unique_id)))
            /\ UNCHANGED hris_groups
       ELSE /\ hris_groups' = CaseInsensitiveDict_setitem(hris_groups, unique_id,
                  [HRISGroup(unique_id, name, group_type)
                      EXCEPT !._property_definitions = "group_properties"])
            /\ Step(Return("HRISProvider.add_group", args))
    /\ UNCHANGED <<hris_employees, hris_property_definitions>>
    /\ UNCHANGED <<appVars, idpVars>>

---------------------------------------------------------------------------
(* The state after CustomApplication("app", "atype"),                     *)
(* CustomIdPProvider("idp", "itype", "example.com") and                    *)
(* HRISProvider("hris", "htype", url)                                      *)

\* ApplicationPropertyDefinitions.__init__
ApplicationPropertyDefinitions ==
    [application_properties |-> EmptyDict,
     local_user_properties |-> EmptyDict,
     local_group_properties |-> EmptyDict,
     local_role_properties |-> EmptyDict,
     role_assignment_properties |-> EmptyDict,
     access_cred_properties |-> EmptyDict,
     resource_properties |-> EmptyDict]

\* IdPPropertyDefinitions.__init__
IdPPropertyDefinitions ==
    [domain_properties |-> EmptyDict,
     user_properties |-> EmptyDict,
     group_properties |-> EmptyDict,
     app_properties |-> EmptyDict,
     app_assignment_properties |-> EmptyDict]

\* HRISPropertyDefinitions.__init__
HRISPropertyDefinitions ==
    [system_properties |-> EmptyDict,
     employee_properties |-> EmptyDict,
     group_properties |-> EmptyDict]

s_example_com == <<"e","x",".","c","o","m">>

Init ==
    /\ local_users = EmptyDict
    /\ local_groups = EmptyDict
    /\ local_roles = EmptyDict
    /\ idp_identities = EmptyDict
    /\ access_creds = EmptyDict
    /\ resources = EmptyDict
    /\ custom_permissions = EmptyDict
    /\ app_tags = EmptyList
    /\ app_properties = EmptyDict
    /\ property_definitions = ApplicationPropertyDefinitions
    /\ idp_users = EmptyDict
    /\ idp_groups = EmptyDict
    /\ idp_apps = EmptyDict
    /\ idp_domain = CustomIdPDomain(PyStr(s_example_com), "idp")
    /\ idp_property_definitions = IdPPropertyDefinitions
    /\ hris_employees = EmptyDict
    /\ hris_groups = EmptyDict
    /\ hris_property_definitions = HRISPropertyDefinitions
    /\ payload = <<>>
    /\ entities = <<>>
    /\ operations = <<>>
    /\ requests = <<>>
    /\ server = NoTenant
    /\ result = Return("__init__", [name |-> PyNone])
    /\ calls = 0

---------------------------------------------------------------------------
(* Inputs *)

s_Bob == <<"B","o","b">>
s_bob == <<"b","o","b">>
s_al == <<"a","l">>
s_Al == <<"A","l">>

\* names and unique ids given to the add_* builders
Names == {PyStr(s_Bob), PyStr(s_bob)}
UniqueIds == {PyNone, PyStr(s_Al)}
ResourceTypes == {PyStr(<<"t">>)}
PermissionLists == {PermArg("list", <<"DataRead", "DataWrite">>)}

(* Every builder that adds an entity to an identifier collection *)
AddCall ==
    \/ \E name \in Names, unique_id \in UniqueIds : add_local_user(name, unique_id)
    \/ \E name \in Names, unique_id \in UniqueIds : add_local_group(name, unique_id)
    \/ \E name \in Names, unique_id \in UniqueIds : add_local_role(name, EmptyList, unique_id)
    \/ \E name \in Names : add_idp_identity(name)
    \/ \E name \in Names, unique_id \in UniqueIds : add_access_cred(unique_id, name)
    \/ \E name \in Names, unique_id \in UniqueIds, rt \in ResourceTypes :
          add_resource(name, rt, unique_id)
    \/ \E path \in ResourcePaths(resources), name \in Names, unique_id \in UniqueIds,
          rt \in ResourceTypes : add_sub_resource(path, name, rt, unique_id)
    \/ \E name \in Names, p \in PermissionLists : add_custom_permission(name, p, FALSE, EmptyList)
    \/ \E name \in Names, p \in PermissionLists : define_custom_permission(name, p)
    \/ \E name \in Names, identity \in UniqueIds : CustomIdPProvider_add_user(name, identity)
    \/ \E name \in Names, identity \in UniqueIds : CustomIdPProvider_add_group(name, identity)
    \/ \E id \in Names : CustomIdPProvider_add_app(id, PyStr(s_al))
    \/ \E unique_id \in Names :
          HRISProvider_add_employee(unique_id, PyStr(s_al), PyStr(<<"1">>), PyStr(s_al),
                                    PyStr(s_al), PyTrue, PyStr(<<"h">>))
    \/ \E unique_id \in Names : HRISProvider_add_group(unique_id, PyStr(s_al), PyStr(<<"t">>))

NextAdd == calls < MaxAddCalls /\ AddCall

SpecAdd == Init /\ [][NextAdd]_vars

---------------------------------------------------------------------------
(* Property definition registries *)

\* the members of OAAPropertyType
OAAPropertyType == {"BOOLEAN", "NUMBER", "STRING", "STRING_LIST", "TIMESTAMP"}
\* a property_type argument that is a member of the enum
PropertyType(m) == [t |-> "OAAPropertyType", v |-> <<m>>]
\* isinstance(property_type, OAAPropertyType)
IsOAAPropertyType(x) == x.t = "OAAPropertyType" /\ x.v[1] \in OAAPropertyType

LowerCaseLetters == { LowerLetters[i] : i \in 1..Len(LowerLetters) }

\* re.match(PROPERTY_NAME_REGEX, s) with PROPERTY_NAME_REGEX = r"^[a-z][a-z_]*$";
\* `$` also matches just before a newline that ends the string
MatchesPropertyNameRegex(s) ==
    LET body == IF Len(s) > 0 /\ s[Len(s)] = "\n" THEN SubSeq(s, 1, Len(s) - 1) ELSE s
    IN /\ Len(body) >= 1
       /\ body[1] \in LowerCaseLetters
       /\ \A i \in 2..Len(body) : body[i] \in LowerCaseLetters \cup {"_"}

\* ApplicationPropertyDefinitions.validate_name: the exception it raises, or NoError
validate_name(name) ==
    IF name.t # "str"
    THEN Exc("OAATemplateException", "Property name must be a string", PyNone)
    ELSE IF ~MatchesPropertyNameRegex(Lower(name.v))
    THEN Exc("OAATemplateException",
             "Lower-cased property name must match the pattern: '{PROPERTY_NAME_REGEX}': {name}", name)
    ELSE NoError

\* HRISPropertyDefinitions.validate_name
HRIS_validate_name(name) ==
    IF name.t # "str"
    THEN Exc("OAATemplateException", "Property name must be a string, received {type(name)}", PyNone)
    ELSE IF ~MatchesPropertyNameRegex(Lower(name.v))
    THEN Exc("OAATemplateException",
             "Lower-cased property name must match the pattern: '{PROPERTY_NAME_REGEX}'. Invalid name: {name}", name)
    ELSE NoError

\* _validate_types of the three registries: the exception it raises, or NoError
validate_types(name, property_type) ==
    IF name.t # "str"
    THEN Exc("OAATemplateException", "property name must be type string", PyNone)
    ELSE IF ~IsOAAPropertyType(property_type)
    THEN Exc("OAATemplateException", "property_type must be type OAAPropertyType enum", PyNone)
    ELSE NoError

\* validate_name(name) then _validate_types(name, property_type)
validate_definition(name, property_type) ==
    IF validate_name(name) # NoError THEN validate_name(name)
    ELSE validate_types(name, property_type)

\* the namespaces of ApplicationPropertyDefinitions kept in one flat dict each,
\* defined by define_application_property, define_local_user_property,
\* define_local_group_property, define_local_role_property and
\* define_access_cred_property
ApplicationNamespaces == {"application_properties", "local_user_properties",
                          "local_group_properties", "local_role_properties",
                          "access_cred_properties"}

\* ApplicationPropertyDefinitions.define_<namespace>_property(name, property_type)
define_property(namespace, name, property_type) ==
    LET args == [namespace |-> namespace, name |-> name, property_type |-> property_type]
        error == validate_definition(name, property_type)
    IN
    /\ IF error # NoError
       THEN /\ Step(Raise("define_property", args, error))
            /\ UNCHANGED property_definitions
       ELSE /\ property_definitions' =
                  [property_definitions EXCEPT ![namespace] = DictSet(@, name, property_type)]
            /\ Step(Return("define_property", args))
    /\ UNCHANGED <<local_users, local_groups, local_roles, idp_identities, access_creds,
                   resources, custom_permissions, app_tags, app_properties>>
    /\ UNCHANGED <<idpVars, hrisVars>>

\* ApplicationPropertyDefinitions.define_role_assignment_property
define_role_assignment_property(name, property_type) ==
    LET args == [namespace |-> "role_assignment_properties", name |-> name,
                 property_type |-> property_type]
        error == validate_definition(name, property_type)
    IN
    /\ IF DictContains(property_definitions.local_role_properties, name)
       THEN /\ Step(Raise("define_property", args,
                     Exc("OAATemplateException",
                         "Role assignment property names must be unique to role properties, name {name}", name)))
            /\ UNCHANGED property_definitions
       ELSE IF error # NoError
       THEN /\ Step(Raise("define_property", args, error))
            /\ UNCHANGED property_definitions
       ELSE /\ property_definitions' =
                  [property_definitions EXCEPT !.role_assignment_properties = DictSet(@, name, property_type)]
            /\ Step(Return("define_property", args))
    /\ UNCHANGED <<local_users, local_groups, local_roles, idp_identities, access_creds,
                   resources, custom_permissions, app_tags, app_properties>>
    /\ UNCHANGED <<idpVars, hrisVars>>

\* ApplicationPropertyDefinitions.define_resource_property
define_resource_property(resource_type, name, property_type) ==
    LET args == [namespace |-> "resource_properties", name |-> name,
                 property_type |-> property_type, resource_type |-> resource_type]
        error == validate_definition(name, property_type)
    IN
    /\ IF error # NoError
       THEN /\ Step(Raise("define_property", args, error))
            /\ UNCHANGED property_definitions
       ELSE /\ property_definitions' =
                  [property_definitions EXCEPT !.resource_properties =
                     IF ~DictContains(@, resource_type)
                     THEN DictSet(@, resource_type, DictSet(EmptyDict, name, property_type))
                     ELSE DictSet(@, resource_type, DictSet(DictGet(@, resource_type), name, property_type))]
            /\ Step(Return("define_property", args))
    /\ UNCHANGED <<local_users, local_groups, local_roles, idp_identities, access_creds,
                   resources, custom_permissions, app_tags, app_properties>>
    /\ UNCHANGED <<idpVars, hrisVars>>

\* the namespaces of IdPPropertyDefinitions, defined by define_domain_property,
\* define_user_property, define_group_property, define_app_property and
\* define_app_assignment_property
IdPNamespaces == {"domain_properties", "user_properties", "group_properties",
                  "app_properties", "app_assignment_properties"}

\* IdPPropertyDefinitions.define_<namespace>_property(name, property_type)
IdP_define_property(namespace, name, property_type) ==
    LET args == [namespace |-> namespace, name |-> name, property_type |-> property_type]
        error == validate_types(name, property_type)
    IN
    /\ IF error # NoError
       THEN /\ Step(Raise("IdP.define_property", args, error))
            /\ UNCHANGED idp_property_definitions
       ELSE /\ idp_property_definitions' =
                  [idp_property_definitions EXCEPT ![namespace] = DictSet(@, name, property_type)]
            /\ Step(Return("IdP.define_property", args))
    /\ UNCHANGED <<idp_users, idp_groups, idp_apps, idp_domain>>
    /\ UNCHANGED <<appVars, hrisVars>>

\* the namespaces of HRISPropertyDefinitions, defined by define_system_property,
\* define_employee_property and define_group_property
HRISNamespaces == {"system_properties", "employee_properties", "group_properties"}

\* HRISPropertyDefinitions.define_<namespace>_property(name, property_type);
\* each namespace is a CaseInsensitiveDict
HRIS_define_property(namespace, name, property_type) ==
    LET args == [namespace |-> namespace, name |-> name, property_type |-> property_type]
        error == IF HRIS_validate_name(name) # NoError THEN HRIS_validate_name(name)
                 ELSE validate_types(name, property_type)
    IN
    /\ IF error # NoError
       THEN /\ Step(Raise("HRIS.define_property", args, error))
            /\ UNCHANGED hris_property_definitions
       ELSE /\ hris_property_definitions' =
                  [hris_property_definitions EXCEPT ![namespace] =
                      CaseInsensitiveDict_setitem(@, name, property_type)]
            /\ Step(Return("HRIS.define_property", args))
    /\ UNCHANGED <<hris_employees, hris_groups>>
    /\ UNCHANGED <<appVars, idpVars>>

---------------------------------------------------------------------------
(* C1 *)

\* the identifier an entity was added under: unique_id when set, else name
EntityIdentifier(e) == IF e.unique_id # PyNone THEN e.unique_id ELSE e.name
\* the same for IdP users and groups (identity) and apps (id)
IdPEntityIdentifier(e) == IF Truthy(e.identity) THEN e.identity ELSE e.name

IdentifiersOf(d) == { EntityIdentifier(d[i].v) : i \in 1..Len(d) }
NamesOf(d) == { d[i].v.name : i \in 1..Len(d) }
IdPIdentifiersOf(d) == { IdPEntityIdentifier(d[i].v) : i \in 1..Len(d) }
IdsOf(d) == { d[i].v.id : i \in 1..Len(d) }
UniqueIdsOf(d) == { d[i].v.unique_id : i \in 1..Len(d) }

\* two identifiers are the same when equal, or strings equal up to letter case
SameIdentifier(a, b) ==
    IF a.t = "str" /\ b.t = "str" THEN Lower(a.v) = Lower(b.v) ELSE a = b

DuplicateMessages ==
    {"Local user identified by {identifier} already defined",
     "Local group identified by {identifier} already defined",
     "Local role identified by {identifier} already defined",
     "IdP Identity {name} already defined",
     "Access credential identified by {unique_id} already exists",
     "Resource identified by {identifier} already defined",
     "Sub-resource identified by {identifier} already defined",
     "Custom permission {name} already exists",
     "Custom permission {custom_permission.name} already defined",
     "IdP user identified by {identifier} already defined",
     "IdP group {identifier} already defined",
     "IdP App with ID {id} already defined",
     "Employee with unique ID already exists, {unique_id}",
     "Group with unique ID already exists, {unique_id}"}

\* the identifier of an add call: unique_id/identity when given, else name
GivenIdentifier(args) == IF Truthy(args.unique_id) THEN args.unique_id ELSE args.name

\* An add call `op` on a collection holding the identifiers `present`, whose
\* identifier is among them up to letter case, fails with a duplicate error
\* naming the identifier and leaves the collection (`before`, `after`) as it was.
DuplicateRejected(op, present, before, after) ==
    (/\ result'.op = op
     /\ \E id \in present : SameIdentifier(id, GivenIdentifier(result'.args)))
    => /\ ~result'.ok
       /\ result'.error.message \in DuplicateMessages
       /\ result'.error.arg = GivenIdentifier(result'.args)
       /\ after = before

C1_Step ==
    /\ DuplicateRejected("add_local_user", IdentifiersOf(local_users), local_users, local_users')
    /\ DuplicateRejected("add_local_group", IdentifiersOf(local_groups), local_groups, local_groups')
    /\ DuplicateRejected("add_local_role", IdentifiersOf(local_roles), local_roles, local_roles')
    /\ DuplicateRejected("add_idp_identity", NamesOf(idp_identities), idp_identities, idp_identities')
    /\ DuplicateRejected("add_access_cred", UniqueIdsOf(access_creds), access_creds, access_creds')
    /\ DuplicateRejected("add_resource", IdentifiersOf(resources), resources, resources')
    /\ result'.op = "add_sub_resource" =>
          DuplicateRejected("add_sub_resource",
              IdentifiersOf(ResourceAt(resources, result'.args.path).sub_resources),
              resources, resources')
    /\ DuplicateRejected("add_custom_permission", NamesOf(custom_permissions),
                         custom_permissions, custom_permissions')
    /\ DuplicateRejected("define_custom_permission", NamesOf(custom_permissions),
                         custom_permissions, custom_permissions')
    /\ DuplicateRejected("CustomIdPProvider.add_user", IdPIdentifiersOf(idp_users), idp_users, idp_users')
    /\ DuplicateRejected("CustomIdPProvider.add_group", IdPIdentifiersOf(idp_groups), idp_groups, idp_groups')
    /\ DuplicateRejected("CustomIdPProvider.add_app", IdsOf(idp_apps), idp_apps, idp_apps')
    /\ DuplicateRejected("HRISProvider.add_employee", UniqueIdsOf(hris_employees),
                         hris_employees, hris_employees')
    /\ DuplicateRejected("HRISProvider.add_group", UniqueIdsOf(hris_groups), hris_groups, hris_groups')

\* C1: in every identifier collection of the three aggregates, an add call
\* whose identifier (unique_id/identity when given, otherwise name) is already
\* present, also when it differs from the present one only in letter case,
\* fails with a duplicate error and leaves the collection unchanged.
C1_DuplicateAddFails == [][C1_Step]_vars

\* a sub-resource add was rejected as a duplicate of a sub-resource whose
\* identifier is spelled in another letter case
C1_Witness ==
    /\ result.op = "add_sub_resource"
    /\ ~result.ok
    /\ result.error.message \in DuplicateMessages
    /\ \E id \in IdentifiersOf(ResourceAt(resources, result.args.path).sub_resources) :
          /\ id # GivenIdentifier(result.args)
          /\ SameIdentifier(id, GivenIdentifier(result.args))

---------------------------------------------------------------------------
(* The define_* calls of the three registries *)

\* calls made on the registries in one run of SpecDefine
MaxDefineCalls == 2

s_ab == <<"a","b">>
s_A_b == <<"A","_","b">>
s_1a == <<"1","a">>
s_a_space_b == <<"a"," ","b">>

\* name arguments: two that match the pattern, two that do not, one not a string
PropertyNameArgs == {PyStr(s_ab), PyStr(s_A_b), PyStr(s_1a), PyStr(s_a_space_b),
                     [t |-> "int", v |-> <<"1">>]}
\* property_type arguments: two members of the enum and the plain string "STRING"
PropertyTypeArgs == {PropertyType("STRING"), PropertyType("BOOLEAN"),
                     PyStr(<<"S","T","R","I","N","G">>)}

DefineCall ==
    \/ \E ns \in ApplicationNamespaces, name \in PropertyNameArgs, pt \in PropertyTypeArgs :
          define_property(ns, name, pt)
    \/ \E name \in PropertyNameArgs, pt \in PropertyTypeArgs :
          define_role_assignment_property(name, pt)
    \/ \E rt \in ResourceTypes, name \in PropertyNameArgs, pt \in PropertyTypeArgs :
          define_resource_property(rt, name, pt)
    \/ \E ns \in IdPNamespaces, name \in PropertyNameArgs, pt \in PropertyTypeArgs :
          IdP_define_property(ns, name, pt)
    \/ \E ns \in HRISNamespaces, name \in PropertyNameArgs, pt \in PropertyTypeArgs :
          HRIS_define_property(ns, name, pt)

NextDefine == calls < MaxDefineCalls /\ DefineCall

SpecDefine == Init /\ [][NextDefine]_vars

---------------------------------------------------------------------------
(* C10 *)

\* the (name, type) pairs a flat namespace dict records
Recorded(d) == { <<d[i].k, d[i].v>> : i \in 1..Len(d) }

ApplicationRecorded ==
    UNION ({ Recorded(property_definitions[ns]) :
               ns \in ApplicationNamespaces \cup {"role_assignment_properties"} }
           \cup { Recorded(property_definitions.resource_properties[i].v) :
                    i \in 1..Len(property_definitions.resource_properties) })
IdPRecorded == UNION { Recorded(idp_property_definitions[ns]) : ns \in IdPNamespaces }
HRISRecorded == UNION { Recorded(hris_property_definitions[ns]) : ns \in HRISNamespaces }

\* a recorded name is a string matching ^[a-z][a-z_]*$ case-insensitively and
\* a recorded type is a supported property type
WellFormedDefinition(nt) ==
    /\ nt[1].t = "str"
    /\ MatchesPropertyNameRegex(Lower(nt[1].v))
    /\ IsOAAPropertyType(nt[2])

\* C10: after any sequence of define_<namespace>_property calls on any of the
\* three registries every recorded property name is a string matching
\* ^[a-z][a-z_]*$ case-insensitively and every recorded type is a supported
\* property type.  (Violated: IdPPropertyDefinitions never checks the name
\* against the pattern.)
C10_RecordedDefinitionsWellFormed ==
    \A nt \in ApplicationRecorded \cup IdPRecorded \cup HRISRecorded : WellFormedDefinition(nt)

---------------------------------------------------------------------------
(* Identity: add_permission, add_role, get_identity_to_permissions *)

\* the identities of the application: the collection that holds it and its key
IdentityCollections == {"local_users", "local_groups", "idp_identities", "access_creds"}
IdentityCollection(coll) ==
    CASE coll = "local_users" -> local_users
      [] coll = "local_groups" -> local_groups
      [] coll = "idp_identities" -> idp_identities
      [] coll = "access_creds" -> access_creds
IdentityRefs ==
    UNION { { [coll |-> coll, key |-> IdentityCollection(coll)[i].k] :
                i \in 1..Len(IdentityCollection(coll)) } : coll \in IdentityCollections }
IdentityOf(ref) == DictGet(IdentityCollection(ref.coll), ref.key)

\* the identity object `ref` is mutated in place to `new`
StoreIdentity(ref, new) ==
    /\ local_users' = IF ref.coll = "local_users" THEN DictSet(local_users, ref.key, new) ELSE local_users
    /\ local_groups' = IF ref.coll = "local_groups" THEN DictSet(local_groups, ref.key, new) ELSE local_groups
    /\ idp_identities' = IF ref.coll = "idp_identities" THEN DictSet(idp_identities, ref.key, new) ELSE idp_identities
    /\ access_creds' = IF ref.coll = "access_creds" THEN DictSet(access_creds, ref.key, new) ELSE access_creds

\* a `resources` argument: None, a list of objects, or an object that is not a list
ResourcesNone == [kind |-> "None", items |-> <<>>]
ResourcesList(items) == [kind |-> "list", items |-> items]
ResourcesNotList(item) == [kind |-> "CustomResource", items |-> <<item>>]
\* an element of a resources list: a CustomResource object, or its key as a plain string
ResourceObject(r) == [cls |-> "CustomResource", resource_key |-> r.resource_key]
NotAResource(r) == [cls |-> "str", resource_key |-> r.resource_key]

\* `if not resources: resources = []`
NormalizedResources(resources_arg) ==
    IF resources_arg.kind = "list" THEN resources_arg.items ELSE <<>>

\* the two argument checks on `resources` shared by add_permission and add_role
resources_error(resources_arg) ==
    IF resources_arg.kind = "None" \/ (resources_arg.kind = "list" /\ resources_arg.items = <<>>)
    THEN NoError
    ELSE IF resources_arg.kind # "list"
    THEN Exc("OAATemplateException", "resources must be list", PyNone)
    ELSE IF \E i \in 1..Len(resources_arg.items) : resources_arg.items[i].cls # "CustomResource"
    THEN Exc("OAATemplateException", "resources must be of a type CustomResource", PyNone)
    ELSE NoError

\* [r.resource_key for r in resources]
ResourceKeys(items) == [i \in 1..Len(items) |-> items[i].resource_key]

ListContains(list, x) == \E i \in 1..Len(list) : list[i] = x

\* for r in resources: if r.resource_key not in list: list.append(r.resource_key)
RECURSIVE AppendMissing(_, _)
AppendMissing(list, keys) ==
    IF keys = <<>> THEN list
    ELSE AppendMissing(IF ListContains(list, Head(keys)) THEN list ELSE Append(list, Head(keys)),
                       Tail(keys))

\* mutant: the check for a grant with no target is dropped
NothingGranted_unchecked(apply_to_application, resource_list) == FALSE

\* `not (apply_to_application or resources)`
NothingGranted(apply_to_application, resource_list) ==
    ~(Truthy(apply_to_application) \/ resource_list # <<>>)

\* Identity.add_permission(permission, resources, apply_to_application)
Identity_add_permission(ref, permission, resources_arg, apply_to_application) ==
    LET self == IdentityOf(ref)
        args == [self |-> ref, name |-> permission, resources |-> resources_arg,
                 apply_to_application |-> apply_to_application, assignment_properties |-> EmptyDict]
        list == NormalizedResources(resources_arg)
        error == IF resources_error(resources_arg) # NoError THEN resources_error(resources_arg)
                 ELSE IF NothingGranted(apply_to_application, list)
                 THEN Exc("OAATemplateException",
                          "Must add permission to resource or application. resources cannot be empty and apply_to_application be False",
                          PyNone)
                 ELSE NoError
        application_permissions ==
            IF Truthy(apply_to_application) /\ ~ListContains(self.application_permissions, permission)
            THEN Append(self.application_permissions, permission)
            ELSE self.application_permissions
        resource_permissions ==
            IF list = <<>> THEN self.resource_permissions
            ELSE IF DictContains(self.resource_permissions, permission)
            THEN DictSet(self.resource_permissions, permission,
                         AppendMissing(DictGet(self.resource_permissions, permission), ResourceKeys(list)))
            ELSE DictSet(self.resource_permissions, permission, ResourceKeys(list))
    IN
    /\ IF error # NoError
       THEN /\ Step(Raise("add_permission", args, error))
            /\ UNCHANGED <<local_users, local_groups, idp_identities, access_creds>>
       ELSE /\ StoreIdentity(ref, [self EXCEPT !.application_permissions = application_permissions,
                                               !.resource_permissions = resource_permissions])
            /\ Step(Return("add_permission", args))
    /\ UNCHANGED <<local_roles, resources, custom_permissions, app_tags, app_properties,
                   property_definitions>>
    /\ UNCHANGED <<idpVars, hrisVars>>

\* ApplicationPropertyDefinitions.validate_property_name: the exception it
\* raises, or NoError
validate_property_name(definitions, property_name, entity_type, resource_type) ==
    LET namespace == CASE entity_type = "application" -> "application_properties"
                       [] entity_type = "local_user" -> "local_user_properties"
                       [] entity_type = "local_group" -> "local_group_properties"
                       [] entity_type = "local_role" -> "local_role_properties"
                       [] entity_type = "role_assignment" -> "role_assignment_properties"
                       [] entity_type = "access_cred" -> "access_cred_properties"
                       [] OTHER -> "resource_properties"
        valid_property_names ==
            IF entity_type = "resource"
            THEN DictKeys(DictGet(definitions.resource_properties, resource_type))
            ELSE DictKeys(definitions[namespace])
    IN
    IF entity_type \notin {"application", "local_user", "local_group", "local_role",
                            "role_assignment", "access_cred", "resource"}
    THEN Exc("OAATemplateException", "Unknown entity type '{entity_type}', cannot validate property names",
             PyNone)
    ELSE IF entity_type = "resource" /\ ~DictContains(definitions.resource_properties, resource_type)
    THEN Exc("OAATemplateException", "No custom properties defined for resource type {resource_type}",
             resource_type)
    ELSE IF \E i \in 1..Len(valid_property_names) :
               Lower(valid_property_names[i].v) = Lower(property_name.v)
    THEN NoError
    ELSE Exc("OAATemplateException", "unknown property name {property_name}", property_name)

\* the loop `for property_name in assignment_properties: validate_property_name(...)`
\* of add_role: the first exception raised, or NoError.  An identity built
\* without property definitions (IdPIdentity) has property_definitions None.
RECURSIVE validate_assignment_properties(_, _)
validate_assignment_properties(defs, names) ==
    IF names = <<>> THEN NoError
    ELSE IF defs = "None"
    THEN Exc("AttributeError", "'NoneType' object has no attribute 'validate_property_name'", PyNone)
    ELSE IF validate_property_name(property_definitions, Head(names), "role_assignment", PyNone) # NoError
    THEN validate_property_name(property_definitions, Head(names), "role_assignment", PyNone)
    ELSE validate_assignment_properties(defs, Tail(names))

\* dict.update(other)
RECURSIVE DictUpdate(_, _)
DictUpdate(d, other) ==
    IF other = <<>> THEN d
    ELSE DictUpdate(DictSet(d, Head(other).k, Head(other).v), Tail(other))

\* mutant: a later add_role always takes over apply_to_application
RoleAssignmentAfter_overwritten(self, role, list, apply_to_application, assignment_properties) ==
    IF ~DictContains(self.role_assignments, role)
    THEN [apply_to_application |-> apply_to_application,
          resources |-> ResourceKeys(list),
          custom_properties |-> assignment_properties]
    ELSE LET old == DictGet(self.role_assignments, role)
         IN [apply_to_application |-> apply_to_application,
             resources |-> AppendMissing(old.resources, ResourceKeys(list)),
             custom_properties |-> DictUpdate(old.custom_properties, assignment_properties)]

\* the record add_role leaves in role_assignments[role]
RoleAssignmentAfter(self, role, list, apply_to_application, assignment_properties) ==
    IF ~DictContains(self.role_assignments, role)
    THEN [apply_to_application |-> apply_to_application,
          resources |-> ResourceKeys(list),
          custom_properties |-> assignment_properties]
    ELSE LET old == DictGet(self.role_assignments, role)
         IN [apply_to_application |-> IF apply_to_application # PyNone
                                      THEN apply_to_application ELSE old.apply_to_application,
             resources |-> AppendMissing(old.resources, ResourceKeys(list)),
             custom_properties |-> DictUpdate(old.custom_properties, assignment_properties)]

\* mutant: the record is written before the assignment properties are validated
add_role_write_first(self, role, list, apply_to_application, assignment_properties, error) ==
    DictSet(self.role_assignments, role,
            RoleAssignmentAfter(self, role, list, apply_to_application, assignment_properties))

\* role_assignments after add_role: untouched when validation raised `error`
add_role_write(self, role, list, apply_to_application, assignment_properties, error) ==
    IF error # NoError THEN self.role_assignments
    ELSE DictSet(self.role_assignments, role,
                 RoleAssignmentAfter(self, role, list, apply_to_application, assignment_properties))

\* Identity.add_role(role, resources, apply_to_application, assignment_properties);
\* assignment_properties None is passed as the empty dict (`if not
\* assignment_properties: assignment_properties = {}`)
Identity_add_role(ref, role, resources_arg, apply_to_application, assignment_properties) ==
    LET self == IdentityOf(ref)
        args == [self |-> ref, name |-> role, resources |-> resources_arg,
                 apply_to_application |-> apply_to_application,
                 assignment_properties |-> assignment_properties]
        list == NormalizedResources(resources_arg)
        error == IF resources_error(resources_arg) # NoError THEN resources_error(resources_arg)
                 ELSE validate_assignment_properties(self.property_definitions,
                                                     DictKeys(assignment_properties))
        role_assignments ==
            IF resources_error(resources_arg) # NoError THEN self.role_assignments
            ELSE add_role_write(self, role, list, apply_to_application, assignment_properties, error)
    IN
    /\ StoreIdentity(ref, [self EXCEPT !.role_assignments = role_assignments])
    /\ IF error # NoError
       THEN Step(Raise("add_role", args, error))
       ELSE Step(Return("add_role", args))
    /\ UNCHANGED <<local_roles, resources, custom_permissions, app_tags, app_properties,
                   property_definitions>>
    /\ UNCHANGED <<idpVars, hrisVars>>

---------------------------------------------------------------------------
(* Serialization: to_dict and get_payload.  A JSON object is a function   *)
(* from its keys; a key filtered out of the object is absent from the     *)
(* domain.  Attributes the model never sets keep their constructor value  *)
(* (None or ""), which the filters drop.                                  *)

EmptyObject == [x \in {} |-> TRUE]
\* the entry `key: value` when `present`, nothing otherwise
OptKey(present, key, value) == IF present THEN key :> value ELSE EmptyObject

\* [tag.__dict__ for tag in tags]
TagDicts(tags) == [i \in 1..Len(tags) |-> [key |-> tags[i].key, value |-> tags[i].value]]

\* unique_strs(input): the first occurrence of each string, compared lower-cased
RECURSIVE unique_strs_from(_, _, _)
unique_strs_from(input, seen, unique) ==
    IF input = <<>> THEN unique
    ELSE IF ListContains(seen, Lower(Head(input).v))
    THEN unique_strs_from(Tail(input), seen, unique)
    ELSE unique_strs_from(Tail(input), Append(seen, Lower(Head(input).v)), Append(unique, Head(input)))
\* mutant: the unique names are returned lower-cased
unique_strs_lowered(input) ==
    LET unique == unique_strs_from(input, <<>>, <<>>)
    IN [i \in 1..Len(unique) |-> PyStr(Lower(unique[i].v))]

unique_strs(input) == unique_strs_from(input, <<>>, <<>>)

\* mutant: unique_strs removes the duplicates from its input list in place
input_deduplicated_in_place(input) == unique_strs(input)

\* the list passed to unique_strs after the call: unique_strs builds new
\* lists `unique` and `seen` and assigns nothing into `input`
input_after_unique_strs(input) == input

\* LocalUser.to_dict
LocalUser_to_dict(self) ==
    ("name" :> self.name)
    @@ OptKey(Truthy(self.identities), "identities", self.identities.v)
    @@ OptKey(Truthy(self.groups), "groups", self.groups.v)
    @@ OptKey(self.access_creds # <<>>, "access_creds", self.access_creds)
    @@ OptKey(self.tags # <<>>, "tags", TagDicts(self.tags))
    @@ OptKey(self.properties # <<>>, "custom_properties", self.properties)
    @@ OptKey(Truthy(self.unique_id), "id", self.unique_id)

\* LocalGroup.to_dict
LocalGroup_to_dict(self) ==
    OptKey(Truthy(self.name), "name", self.name)
    @@ OptKey(Truthy(self.identities), "identities", self.identities.v)
    @@ OptKey(self.groups # <<>>, "groups", self.groups)
    @@ OptKey(self.tags # <<>>, "tags", TagDicts(self.tags))
    @@ OptKey(self.properties # <<>>, "custom_properties", self.properties)
    @@ OptKey(Truthy(self.unique_id), "id", self.unique_id)

\* AccessCred.to_dict; is_active stays True as constructed, can_expire None and
\* the three timestamps "", all filtered out with the other None, [], {}, ""
AccessCred_to_dict(self) ==
    OptKey(Truthy(self.unique_id), "id", self.unique_id)
    @@ OptKey(Truthy(self.name), "name", self.name)
    @@ ("is_active" :> PyTrue)
    @@ OptKey(self.tags # <<>>, "tags", TagDicts(self.tags))
    @@ OptKey(self.properties # <<>>, "custom_properties", self.properties)

\* LocalRole.to_dict
LocalRole_to_dict(self) ==
    [name |-> self.name,
     permissions |-> unique_strs(self.permissions),
     roles |-> self.roles,
     tags |-> TagDicts(self.tags),
     custom_properties |-> self.properties]
    @@ OptKey(Truthy(self.unique_id), "id", self.unique_id)

\* CustomResource.to_dict
RECURSIVE CustomResource_to_dict(_)
CustomResource_to_dict(self) ==
    OptKey(Truthy(self.unique_id), "id", self.unique_id)
    @@ OptKey(Truthy(self.name), "name", self.name)
    @@ OptKey(Truthy(self.resource_type), "resource_type", self.resource_type)
    @@ OptKey(self.connections # <<>>, "connections", self.connections)
    @@ OptKey(self.sub_resources # <<>>, "sub_resources",
              [i \in 1..Len(self.sub_resources) |-> CustomResource_to_dict(self.sub_resources[i].v)])
    @@ OptKey(self.properties # <<>>, "custom_properties", self.properties)
    @@ OptKey(self.tags # <<>>, "tags", TagDicts(self.tags))

\* CustomPermission.to_dict
CustomPermission_to_dict(self) ==
    [name |-> self.name,
     permission_type |-> self.permission_type,
     apply_to_sub_resources |-> self.apply_to_sub_resources,
     resource_types |-> self.resource_types]

\* CustomApplication(name, application_type): the application under construction
s_app == <<"a","p","p">>
application_name == PyStr(s_app)
application_type == PyStr(<<"a","t","y","p","e">>)

\* ApplicationPropertyDefinitions.to_dict
ApplicationPropertyDefinitions_to_dict(self) ==
    LET defined == SelectSeq(self.resource_properties, LAMBDA e : e.v # <<>>)
        resources_list == [i \in 1..Len(defined) |->
                             [resource_type |-> defined[i].k, properties |-> defined[i].v]]
    IN
    OptKey(Truthy(application_type), "application_type", application_type)
    @@ OptKey(self.application_properties # <<>>, "application_properties", self.application_properties)
    @@ OptKey(self.local_user_properties # <<>>, "local_user_properties", self.local_user_properties)
    @@ OptKey(self.local_group_properties # <<>>, "local_group_properties", self.local_group_properties)
    @@ OptKey(self.local_role_properties # <<>>, "local_role_properties", self.local_role_properties)
    @@ OptKey(self.role_assignment_properties # <<>>, "role_assignment_properties",
              self.role_assignment_properties)
    @@ OptKey(self.access_cred_properties # <<>>, "local_access_creds_properties",
              self.access_cred_properties)
    @@ OptKey(resources_list # <<>>, "resources", resources_list)

\* the entry of one role assignment in Identity.get_identity_to_permissions
RoleAssignmentEntry(role, assignment) ==
    [application |-> application_name,
     role |-> role,
     apply_to_application |-> IF Truthy(assignment.apply_to_application)
                              THEN assignment.apply_to_application ELSE PyFalse]
    @@ OptKey(assignment.resources # <<>>, "resources", assignment.resources)
    @@ OptKey(assignment.custom_properties # <<>>, "custom_properties", assignment.custom_properties)

\* mutant: every stored role assignment is serialized
RoleAssignmentSerialized_every(e) == TRUE

\* a stored role assignment that is serialized: one that is assigned to the
\* application or to a resource
RoleAssignmentSerialized(e) == Truthy(e.v.apply_to_application) \/ e.v.resources # <<>>

\* Identity.get_identity_to_permissions
Identity_get_identity_to_permissions(self) ==
    LET application_permissions ==
            [i \in 1..Len(self.application_permissions) |->
                [application |-> application_name,
                 permission |-> self.application_permissions[i],
                 apply_to_application |-> PyTrue]]
            \o [i \in 1..Len(self.resource_permissions) |->
                [application |-> application_name,
                 resources |-> self.resource_permissions[i].v,
                 permission |-> self.resource_permissions[i].k]]
        assigned == SelectSeq(self.role_assignments, RoleAssignmentSerialized)
        role_assignments == [i \in 1..Len(assigned) |-> RoleAssignmentEntry(assigned[i].k, assigned[i].v)]
    IN
    [identity |-> IF Truthy(self.unique_id) THEN self.unique_id ELSE self.name,
     identity_type |-> self.identity_type]
    @@ OptKey(application_permissions # <<>>, "application_permissions", application_permissions)
    @@ OptKey(role_assignments # <<>>, "role_assignments", role_assignments)

\* mutant: the groups are iterated before the users
get_identity_to_permissions_groups_first ==
    LET identities == DictValues(local_groups) \o DictValues(local_users)
                      \o DictValues(idp_identities) \o DictValues(access_creds)
        entries == [i \in 1..Len(identities) |-> Identity_get_identity_to_permissions(identities[i])]
    IN SelectSeq(entries, LAMBDA entry : "application_permissions" \in DOMAIN entry
                                         \/ "role_assignments" \in DOMAIN entry)

\* CustomApplication.get_identity_to_permissions
get_identity_to_permissions ==
    LET identities == DictValues(local_users) \o DictValues(local_groups)
                      \o DictValues(idp_identities) \o DictValues(access_creds)
        entries == [i \in 1..Len(identities) |-> Identity_get_identity_to_permissions(identities[i])]
    IN SelectSeq(entries, LAMBDA entry : "application_permissions" \in DOMAIN entry
                                         \/ "role_assignments" \in DOMAIN entry)

\* mutant: the application is serialized once and the document kept
app_dict_kept ==
    IF "applications" \in DOMAIN payload THEN payload.applications[1]
    ELSE [name |-> application_name,
          application_type |-> application_type,
          description |-> PyNone,
          local_users |-> [i \in 1..Len(local_users) |-> LocalUser_to_dict(local_users[i].v)],
          local_groups |-> [i \in 1..Len(local_groups) |-> LocalGroup_to_dict(local_groups[i].v)],
          local_roles |-> [i \in 1..Len(local_roles) |-> LocalRole_to_dict(local_roles[i].v)],
          local_access_creds |-> [i \in 1..Len(access_creds) |-> AccessCred_to_dict(access_creds[i].v)],
          tags |-> TagDicts(app_tags),
          custom_properties |-> app_properties,
          resources |-> [i \in 1..Len(resources) |-> CustomResource_to_dict(resources[i].v)]]

\* CustomApplication.app_dict
app_dict ==
    [name |-> application_name,
     application_type |-> application_type,
     description |-> PyNone,
     local_users |-> [i \in 1..Len(local_users) |-> LocalUser_to_dict(local_users[i].v)],
     local_groups |-> [i \in 1..Len(local_groups) |-> LocalGroup_to_dict(local_groups[i].v)],
     local_roles |-> [i \in 1..Len(local_roles) |-> LocalRole_to_dict(local_roles[i].v)],
     local_access_creds |-> [i \in 1..Len(access_creds) |-> AccessCred_to_dict(access_creds[i].v)],
     tags |-> TagDicts(app_tags),
     custom_properties |-> app_properties,
     resources |-> [i \in 1..Len(resources) |-> CustomResource_to_dict(resources[i].v)]]

\* CustomApplication.permissions_dict
permissions_dict ==
    [i \in 1..Len(custom_permissions) |-> CustomPermission_to_dict(custom_permissions[i].v)]

\* CustomApplication.get_payload
get_payload ==
    /\ payload' = [custom_property_definition |->
                      [applications |-> <<ApplicationPropertyDefinitions_to_dict(property_definitions)>>],
                   applications |-> <<app_dict>>,
                   permissions |-> permissions_dict,
                   identity_to_permissions |-> get_identity_to_permissions]
    /\ local_roles' = [i \in 1..Len(local_roles) |->
                         [local_roles[i] EXCEPT !.v.permissions = input_after_unique_strs(@)]]
    /\ result' = Return("get_payload", [self |-> "CustomApplication"])
    /\ calls' = calls + 1
    /\ UNCHANGED <<dictVars, clientVars>>
    /\ UNCHANGED <<local_users, local_groups, idp_identities, access_creds, resources,
                   custom_permissions, app_tags, app_properties, property_definitions>>
    /\ UNCHANGED <<idpVars, hrisVars>>

---------------------------------------------------------------------------
(* Grants: add_permission and add_role on the identities of an            *)
(* application that already has a local user, an IdP identity, a resource *)
(* with a sub-resource and one declared role-assignment property.         *)

\* calls made on the identities in one run of SpecGrant
MaxGrantCalls == 3

s_thing2 == <<"t","h","i","n","g","2">>
s_cog1 == <<"c","o","g","1">>
s_view == <<"v","i","e","w">>
s_admin == <<"a","d","m","i","n">>
s_AB == <<"A","B">>
s_zz == <<"z","z">>
s_x == <<"x">>
s_y == <<"y">>

\* thing2.add_sub_resource("cog1", resource_type="c")
cog1 ==
    CustomResource(PyStr(s_cog1), PyStr(<<"c">>), PyStr(s_thing2 \o <<".">> \o s_cog1),
                   "application", PyNone)
\* app.add_resource("thing2", resource_type="t"), then the sub-resource added
thing2 ==
    [CustomResource(PyStr(s_thing2), PyStr(<<"t">>), PyNone, "application", PyNone)
       EXCEPT !.sub_resources = CaseInsensitiveDict_setitem(EmptyDict, PyStr(s_cog1), cog1)]

InitGrant ==
    /\ local_users = CaseInsensitiveDict_setitem(EmptyDict, PyStr(s_Bob),
                        LocalUser(PyStr(s_Bob), PyNone, "application"))
    /\ local_groups = EmptyDict
    /\ local_roles = EmptyDict
    /\ idp_identities = CaseInsensitiveDict_setitem(EmptyDict, PyStr(s_al), IdPIdentity(PyStr(s_al)))
    /\ access_creds = EmptyDict
    /\ resources = CaseInsensitiveDict_setitem(EmptyDict, PyStr(s_thing2), thing2)
    /\ custom_permissions = EmptyDict
    /\ app_tags = EmptyList
    /\ app_properties = EmptyDict
    /\ property_definitions =
          [ApplicationPropertyDefinitions EXCEPT
             !.role_assignment_properties = DictSet(@, PyStr(s_ab), PropertyType("STRING"))]
    /\ idp_users = EmptyDict
    /\ idp_groups = EmptyDict
    /\ idp_apps = EmptyDict
    /\ idp_domain = CustomIdPDomain(PyStr(s_example_com), "idp")
    /\ idp_property_definitions = IdPPropertyDefinitions
    /\ hris_employees = EmptyDict
    /\ hris_groups = EmptyDict
    /\ hris_property_definitions = HRISPropertyDefinitions
    /\ payload = <<>>
    /\ entities = <<>>
    /\ operations = <<>>
    /\ requests = <<>>
    /\ server = NoTenant
    /\ result = Return("__init__", [name |-> PyNone])
    /\ calls = 0

\* `resources` arguments: absent, one resource, the same resource twice, a
\* resource and its sub-resource, a resource not in a list
GrantResourceArgs ==
    {ResourcesNone,
     ResourcesList(<<ResourceObject(thing2)>>),
     ResourcesList(<<ResourceObject(thing2), ResourceObject(thing2)>>),
     ResourcesList(<<ResourceObject(thing2), ResourceObject(cog1)>>),
     ResourcesNotList(ResourceObject(thing2))}

ApplyToApplicationArgs == {PyNone, PyTrue, PyFalse}

\* `assignment_properties` arguments: none, the declared name in another
\* case, the declared name followed by an undeclared one
AssignmentPropertyArgs ==
    {EmptyDict,
     DictSet(EmptyDict, PyStr(s_AB), PyStr(s_y)),
     DictSet(DictSet(EmptyDict, PyStr(s_ab), PyStr(s_y)), PyStr(s_zz), PyStr(s_x))}

GrantCall ==
    \/ \E ref \in IdentityRefs, resources_arg \in GrantResourceArgs,
          apply_to_application \in {PyTrue, PyFalse} :
          Identity_add_permission(ref, PyStr(s_view), resources_arg, apply_to_application)
    \/ \E ref \in IdentityRefs :
          Identity_add_permission(ref, PyStr(s_view), ResourcesList(<<NotAResource(thing2)>>), PyFalse)
    \/ \E ref \in IdentityRefs, resources_arg \in GrantResourceArgs,
          apply_to_application \in ApplyToApplicationArgs,
          assignment_properties \in AssignmentPropertyArgs :
          Identity_add_role(ref, PyStr(s_admin), resources_arg, apply_to_application,
                            assignment_properties)
    \/ get_payload

NextGrant == calls < MaxGrantCalls /\ GrantCall

SpecGrant == InitGrant /\ [][NextGrant]_vars

---------------------------------------------------------------------------
(* C3, C5, C7, C8, C9: grants *)

\* the identity `ref` after the step
IdentityAfter(ref) ==
    DictGet(CASE ref.coll = "local_users" -> local_users'
              [] ref.coll = "local_groups" -> local_groups'
              [] ref.coll = "idp_identities" -> idp_identities'
              [] ref.coll = "access_creds" -> access_creds', ref.key)

IdentitiesUnchanged == UNCHANGED <<local_users, local_groups, idp_identities, access_creds>>

NoDuplicates(list) == \A i, j \in 1..Len(list) : i # j => list[i] # list[j]
ToSet(list) == { list[i] : i \in 1..Len(list) }

\* the call named no resource and did not ask for the application
NoTarget(args) ==
    /\ args.resources.kind = "None" \/ (args.resources.kind = "list" /\ args.resources.items = <<>>)
    /\ ~Truthy(args.apply_to_application)

\* every stored permission grant of the identity targets the application or a resource
PermissionsTargeted(identity) ==
    \A i \in 1..Len(identity.resource_permissions) : identity.resource_permissions[i].v # <<>>
\* every stored role assignment of the identity targets the application or a resource
RolesTargeted(identity) ==
    \A i \in 1..Len(identity.role_assignments) :
       \/ Truthy(identity.role_assignments[i].v.apply_to_application)
       \/ identity.role_assignments[i].v.resources # <<>>

C3_Original_Step ==
    /\ (result'.op \in {"add_permission", "add_role"} /\ NoTarget(result'.args))
          => (~result'.ok /\ IdentitiesUnchanged)
    /\ \A ref \in IdentityRefs :
          PermissionsTargeted(IdentityAfter(ref)) /\ RolesTargeted(IdentityAfter(ref))

C3_Step ==
    /\ (result'.op = "add_permission" /\ NoTarget(result'.args))
          => (~result'.ok /\ IdentitiesUnchanged)
    /\ \A ref \in IdentityRefs : PermissionsTargeted(IdentityAfter(ref))
    /\ (result'.op = "add_role" /\ NoTarget(result'.args)
           /\ result'.args.assignment_properties = EmptyDict)
          => /\ result'.ok
             /\ DictContains(IdentityAfter(result'.args.self).role_assignments, result'.args.name)
             /\ ~DictContains(IdentityOf(result'.args.self).role_assignments, result'.args.name)
                   => ~RolesTargeted(IdentityAfter(result'.args.self))

C5_Step ==
    LET first == result.args
        second == result'.args
        stored == DictGet(IdentityOf(first.self).role_assignments, first.name)
        merged == DictGet(IdentityAfter(second.self).role_assignments, second.name)
        A == ResourceKeys(NormalizedResources(first.resources))
        B == ResourceKeys(NormalizedResources(second.resources))
    IN (/\ result.op = "add_role" /\ result.ok
        /\ result'.op = "add_role" /\ result'.ok
        /\ first.self = second.self
        /\ second.apply_to_application = PyNone
        /\ stored.resources = A
        /\ stored.apply_to_application = first.apply_to_application)
       => /\ ToSet(merged.resources) = ToSet(A) \cup ToSet(B)
          /\ NoDuplicates(merged.resources)
          /\ merged.apply_to_application = first.apply_to_application

\* C5: after add_role(r, resources=A, apply_to_application=x) followed by
\* add_role(r, resources=B) with no apply_to_application value, the stored
\* assignment for r holds exactly the resource keys of A united with those of
\* B, each once, and its apply_to_application is still x.  (Violated: the
\* first assignment stores the keys of A as given, repeats included.)
C5_RoleMergeIsUnion == [][C5_Step]_vars

\* C8: after any sequence of add_permission calls application_permissions
\* holds no permission name twice and each resource_permissions[name] holds
\* no resource_key twice.  (Violated: the first grant of a permission stores
\* the keys of its resource list as given, repeats included.)
C8_NoDuplicateGrants ==
    \A ref \in IdentityRefs :
       /\ NoDuplicates(IdentityOf(ref).application_permissions)
       /\ \A i \in 1..Len(IdentityOf(ref).resource_permissions) :
             NoDuplicates(IdentityOf(ref).resource_permissions[i].v)

\* the name is not declared in the role-assignment namespace (names compare
\* case-insensitively)
UndeclaredRoleAssignmentProperty(name) ==
    \A i \in 1..Len(property_definitions.role_assignment_properties) :
       Lower(property_definitions.role_assignment_properties[i].k.v) # Lower(name.v)

HasUndeclaredProperty(args) ==
    \E i \in 1..Len(args.assignment_properties) :
       UndeclaredRoleAssignmentProperty(args.assignment_properties[i].k)

C9_Step ==
    (result'.op = "add_role" /\ HasUndeclaredProperty(result'.args))
       => (~result'.ok /\ IdentitiesUnchanged)

\* C9: add_role checks every key of assignment_properties before changing
\* anything: when any name is undeclared the call fails and the role
\* assignments of the identity (of every identity) are exactly as before.
C9_AddRoleValidatesFirst == [][C9_Step]_vars

\* a repeated add_role with valid resources, a declared first property name and
\* an undeclared second one has failed on a local user
C9_Witness ==
    /\ result.op = "add_role" /\ ~result.ok
    /\ result.args.self.coll = "local_users"
    /\ resources_error(result.args.resources) = NoError
    /\ result.args.resources.kind = "list"
    /\ Len(result.args.assignment_properties) = 2
    /\ ~UndeclaredRoleAssignmentProperty(result.args.assignment_properties[1].k)
    /\ UndeclaredRoleAssignmentProperty(result.args.assignment_properties[2].k)
    /\ DictContains(IdentityOf(result.args.self).role_assignments, result.args.name)

\* the identity holds a permission, or a role assignment that targets the
\* application or a resource
HoldsGrant(identity) ==
    \/ identity.application_permissions # <<>>
    \/ identity.resource_permissions # <<>>
    \/ \E i \in 1..Len(identity.role_assignments) :
          \/ identity.role_assignments[i].v.apply_to_application = PyTrue
          \/ identity.role_assignments[i].v.resources # <<>>

\* the entries of identity_to_permissions written for the identity
EntriesOf(entries, identity) ==
    { i \in 1..Len(entries) :
        /\ entries[i].identity = (IF Truthy(identity.unique_id) THEN identity.unique_id ELSE identity.name)
        /\ entries[i].identity_type = identity.identity_type }

C7_Step ==
    LET entries == payload'.identity_to_permissions IN
    result'.op = "get_payload" =>
       /\ \A ref \in IdentityRefs :
             Cardinality(EntriesOf(entries, IdentityOf(ref))) =
                 (IF HoldsGrant(IdentityOf(ref)) THEN 1 ELSE 0)
       /\ \A i \in 1..Len(entries) :
             "role_assignments" \in DOMAIN entries[i] =>
                \A j \in 1..Len(entries[i].role_assignments) :
                   \/ entries[i].role_assignments[j].apply_to_application = PyTrue
                   \/ "resources" \in DOMAIN entries[i].role_assignments[j]

\* C7: identity_to_permissions has no entry for an identity whose only grants
\* are role assignments that target neither the application nor a resource,
\* exactly one entry for every identity holding a permission or a targeted
\* role assignment, and no serialized role assignment that targets nothing.
C7_UntargetedRolesOmitted == [][C7_Step]_vars

\* a payload was produced while one identity held only a role assignment
\* targeting nothing and another held a grant
C7_Witness ==
    /\ result.op = "get_payload"
    /\ \E ref \in IdentityRefs :
          /\ IdentityOf(ref).role_assignments # <<>>
          /\ ~HoldsGrant(IdentityOf(ref))
    /\ \E ref \in IdentityRefs : HoldsGrant(IdentityOf(ref))
    /\ Len(payload.identity_to_permissions) = 1

---------------------------------------------------------------------------
(* set_property on every kind of entity.  An entity is named by the       *)
(* collection that holds it, its key there and, for a resource, its path. *)

EntityRef(coll, key, path) == [coll |-> coll, key |-> key, path |-> path]

\* what a set_property call does: raise `error`, return early, or set the value
Raises(error) == [kind |-> "raise", error |-> error]
ReturnsEarly == [kind |-> "return", error |-> NoError]
Sets == [kind |-> "set", error |-> NoError]

\* mutant: the property name is not validated
SetPropertyOutcome_unvalidated(no_definitions, validation, property_value, ignore_none) ==
    IF no_definitions # NoError THEN Raises(no_definitions)
    ELSE IF ignore_none /\ property_value = PyNone THEN ReturnsEarly
    ELSE Sets

\* the body shared by set_property of the application, its resources,
\* identities, access credentials and roles, and of the IdP domain, users,
\* groups and apps:
\*     if not self.property_definitions: raise ...
\*     if ignore_none and property_value is None: return
\*     self.property_definitions.validate_property_name(...)
\*     self.properties[property_name] = property_value
SetPropertyOutcome(no_definitions, validation, property_value, ignore_none) ==
    IF no_definitions # NoError THEN Raises(no_definitions)
    ELSE IF ignore_none /\ property_value = PyNone THEN ReturnsEarly
    ELSE IF validation # NoError THEN Raises(validation)
    ELSE Sets

\* mutant: the name is looked up as given, not lower-cased
HRISSetPropertyOutcome_as_given(definitions, unknown, property_name, property_value, ignore_none) ==
    IF definitions # "None"
          /\ ~DictContains(hris_property_definitions[definitions], property_name)
    THEN Raises(Exc("OAATemplateException", unknown, property_name))
    ELSE IF ignore_none /\ property_value = PyNone THEN ReturnsEarly
    ELSE Sets

\* the body of HRISEmployee.set_property and HRISGroup.set_property: the name
\* is looked up first, in the CaseInsensitiveDict the provider attached
HRISSetPropertyOutcome(definitions, unknown, property_name, property_value, ignore_none) ==
    IF definitions # "None"
          /\ ~CaseInsensitiveDict_contains(hris_property_definitions[definitions], property_name)
    THEN Raises(Exc("OAATemplateException", unknown, property_name))
    ELSE IF ignore_none /\ property_value = PyNone THEN ReturnsEarly
    ELSE Sets

SetPropertyArgs(self, property_name, property_value, ignore_none) ==
    [self |-> self, name |-> property_name, value |-> property_value, ignore_none |-> ignore_none]

\* the result recorded for a set_property call
SetPropertyResult(outcome, args) ==
    IF outcome.kind = "raise" THEN Step(Raise("set_property", args, outcome.error))
    ELSE Step(Return("set_property", args))

\* properties after the call
PropertiesAfter(outcome, properties, property_name, property_value) ==
    IF outcome.kind = "set" THEN DictSet(properties, property_name, property_value) ELSE properties

NoDefinitions(definitions, message, arg) ==
    IF definitions = "None" THEN Exc("OAATemplateException", message, arg) ELSE NoError

\* CustomApplication.set_property
CustomApplication_set_property(property_name, property_value, ignore_none) ==
    LET outcome == SetPropertyOutcome(NoError,
                      validate_property_name(property_definitions, property_name, "application", PyNone),
                      property_value, ignore_none)
    IN
    /\ app_properties' = PropertiesAfter(outcome, app_properties, property_name, property_value)
    /\ SetPropertyResult(outcome, SetPropertyArgs(EntityRef("application", PyNone, <<>>),
                                                  property_name, property_value, ignore_none))
    /\ UNCHANGED <<local_users, local_groups, local_roles, idp_identities, access_creds, resources,
                   custom_permissions, app_tags, property_definitions>>
    /\ UNCHANGED <<idpVars, hrisVars>>

\* CustomResource.set_property on the resource at `path`
CustomResource_set_property(path, property_name, property_value, ignore_none) ==
    LET self == ResourceAt(resources, path)
        outcome == SetPropertyOutcome(
                      NoDefinitions(self.property_definitions,
                                    "No custom properties defined, cannot set value for property {property_name}",
                                    property_name),
                      validate_property_name(property_definitions, property_name, "resource",
                                             self.resource_type),
                      property_value, ignore_none)
    IN
    /\ resources' = ReplaceResourceAt(resources, path,
          [self EXCEPT !.properties = PropertiesAfter(outcome, @, property_name, property_value)])
    /\ SetPropertyResult(outcome, SetPropertyArgs(EntityRef("resources", PyNone, path),
                                                  property_name, property_value, ignore_none))
    /\ UNCHANGED <<local_users, local_groups, local_roles, idp_identities, access_creds,
                   custom_permissions, app_tags, app_properties, property_definitions>>
    /\ UNCHANGED <<idpVars, hrisVars>>

\* set_property on an identity of the application: Identity.set_property for a
\* local user or group (entity_type is the identity_type), AccessCred.set_property
\* (entity_type "access_cred"), IdPIdentity.set_property (always raises)
Identity_set_property(ref, property_name, property_value, ignore_none) ==
    LET self == IdentityOf(ref)
        entity_type == IF ref.coll = "access_creds" THEN "access_cred" ELSE self.identity_type
        outcome ==
            IF ref.coll = "idp_identities"
            THEN Raises(Exc("OAATemplateException", "IdP identities do not support custom properties", PyNone))
            ELSE SetPropertyOutcome(
                    NoDefinitions(self.property_definitions,
                                  "No custom property definitions found for entity", PyNone),
                    validate_property_name(property_definitions, property_name, entity_type, PyNone),
                    property_value, ignore_none)
    IN
    /\ StoreIdentity(ref, [self EXCEPT !.properties =
                              PropertiesAfter(outcome, @, property_name, property_value)])
    /\ SetPropertyResult(outcome, SetPropertyArgs(EntityRef(ref.coll, ref.key, <<>>),
                                                  property_name, property_value, ignore_none))
    /\ UNCHANGED <<local_roles, resources, custom_permissions, app_tags, app_properties,
                   property_definitions>>
    /\ UNCHANGED <<idpVars, hrisVars>>

\* LocalRole.set_property on the role stored under `key`
LocalRole_set_property(key, property_name, property_value, ignore_none) ==
    LET self == DictGet(local_roles, key)
        outcome == SetPropertyOutcome(
                      NoDefinitions(self.property_definitions,
                                    "No custom properties defined, cannot set value for property {property_name}",
                                    property_name),
                      validate_property_name(property_definitions, property_name, "local_role", PyNone),
                      property_value, ignore_none)
    IN
    /\ local_roles' = DictSet(local_roles, key,
          [self EXCEPT !.properties = PropertiesAfter(outcome, @, property_name, property_value)])
    /\ SetPropertyResult(outcome, SetPropertyArgs(EntityRef("local_roles", key, <<>>),
                                                  property_name, property_value, ignore_none))
    /\ UNCHANGED <<local_users, local_groups, idp_identities, access_creds, resources,
                   custom_permissions, app_tags, app_properties, property_definitions>>
    /\ UNCHANGED <<idpVars, hrisVars>>

\* IdPPropertyDefinitions.validate_property_name; entity_type is a member of
\* IdPEntityType, named here by the namespace it selects
IdP_validate_property_name(property_name, namespace) ==
    IF namespace \notin IdPNamespaces
    THEN Exc("OAATemplateException", "Unknown entity type '{entity_type}', cannot validate property names",
             PyNone)
    ELSE IF \E i \in 1..Len(idp_property_definitions[namespace]) :
               Lower(idp_property_definitions[namespace][i].k.v) = Lower(property_name.v)
    THEN NoError
    ELSE Exc("OAATemplateException", "unknown property name {property_name}", property_name)

\* the entities of the IdP provider that carry properties, the variable that
\* holds each kind and the namespace its set_property validates against
IdPKinds == {"idp_domain", "idp_users", "idp_groups", "idp_apps"}
IdPNamespaceOf(kind) ==
    CASE kind = "idp_domain" -> "domain_properties"
      [] kind = "idp_users" -> "user_properties"
      [] kind = "idp_groups" -> "group_properties"
      [] kind = "idp_apps" -> "app_properties"
IdPCollection(kind) ==
    CASE kind = "idp_users" -> idp_users
      [] kind = "idp_groups" -> idp_groups
      [] kind = "idp_apps" -> idp_apps
IdPEntityRefs ==
    {EntityRef("idp_domain", PyNone, <<>>)}
    \cup UNION { { EntityRef(kind, IdPCollection(kind)[i].k, <<>>) : i \in 1..Len(IdPCollection(kind)) } :
                 kind \in IdPKinds \ {"idp_domain"} }
IdPEntityOf(ref) ==
    IF ref.coll = "idp_domain" THEN idp_domain ELSE DictGet(IdPCollection(ref.coll), ref.key)

\* CustomIdPDomain / CustomIdPUser / CustomIdPGroup / CustomIdPApp .set_property
IdP_set_property(ref, property_name, property_value, ignore_none) ==
    LET self == IdPEntityOf(ref)
        outcome == SetPropertyOutcome(
                      NoDefinitions(self._property_definitions,
                                    "No custom property definitions found for domain/user/group/app", PyNone),
                      IdP_validate_property_name(property_name, IdPNamespaceOf(ref.coll)),
                      property_value, ignore_none)
        after == [self EXCEPT !._properties = PropertiesAfter(outcome, @, property_name, property_value)]
    IN
    /\ idp_domain' = IF ref.coll = "idp_domain" THEN after ELSE idp_domain
    /\ idp_users' = IF ref.coll = "idp_users" THEN DictSet(idp_users, ref.key, after) ELSE idp_users
    /\ idp_groups' = IF ref.coll = "idp_groups" THEN DictSet(idp_groups, ref.key, after) ELSE idp_groups
    /\ idp_apps' = IF ref.coll = "idp_apps" THEN DictSet(idp_apps, ref.key, after) ELSE idp_apps
    /\ SetPropertyResult(outcome, SetPropertyArgs(ref, property_name, property_value, ignore_none))
    /\ UNCHANGED idp_property_definitions
    /\ UNCHANGED <<appVars, hrisVars>>

HRISKinds == {"hris_employees", "hris_groups"}
HRISCollection(kind) == IF kind = "hris_employees" THEN hris_employees ELSE hris_groups
HRISEntityRefs ==
    UNION { { EntityRef(kind, HRISCollection(kind)[i].k, <<>>) : i \in 1..Len(HRISCollection(kind)) } :
            kind \in HRISKinds }

\* HRISEmployee.set_property / HRISGroup.set_property
HRIS_set_property(ref, property_name, property_value, ignore_none) ==
    LET self == DictGet(HRISCollection(ref.coll), ref.key)
        outcome == HRISSetPropertyOutcome(self._property_definitions,
                      IF ref.coll = "hris_employees"
                      THEN "unknown employee property name {property_name}"
                      ELSE "unknown group property name {property_name}",
                      property_name, property_value, ignore_none)
        after == [self EXCEPT !.custom_properties =
                     PropertiesAfter(outcome, @, property_name, property_value)]
    IN
    /\ hris_employees' = IF ref.coll = "hris_employees"
                         THEN DictSet(hris_employees, ref.key, after) ELSE hris_employees
    /\ hris_groups' = IF ref.coll = "hris_groups"
                      THEN DictSet(hris_groups, ref.key, after) ELSE hris_groups
    /\ SetPropertyResult(outcome, SetPropertyArgs(ref, property_name, property_value, ignore_none))
    /\ UNCHANGED hris_property_definitions
    /\ UNCHANGED <<appVars, idpVars>>

---------------------------------------------------------------------------
(* Properties: set_property on an application, an IdP provider and an     *)
(* HRIS provider that each hold one entity of every kind and declare the  *)
(* property "ab" in every namespace (for resources: for type "t" only).   *)

\* set_property calls made in one run of SpecProps
MaxSetPropertyCalls == 2

Declared_ab == DictSet(EmptyDict, PyStr(s_ab), PropertyType("STRING"))

InitProps ==
    /\ local_users = CaseInsensitiveDict_setitem(EmptyDict, PyStr(s_Bob),
                        LocalUser(PyStr(s_Bob), PyNone, "application"))
    /\ local_groups = CaseInsensitiveDict_setitem(EmptyDict, PyStr(s_Bob),
                        LocalGroup(PyStr(s_Bob), PyNone, "application"))
    /\ local_roles = CaseInsensitiveDict_setitem(EmptyDict, PyStr(s_admin),
                        LocalRole(PyStr(s_admin), EmptyList, PyNone, "application"))
    /\ idp_identities = CaseInsensitiveDict_setitem(EmptyDict, PyStr(s_al), IdPIdentity(PyStr(s_al)))
    /\ access_creds = CaseInsensitiveDict_setitem(EmptyDict, PyStr(s_Al),
                        AccessCred(PyStr(s_Al), PyStr(s_Bob), "application"))
    /\ resources = CaseInsensitiveDict_setitem(EmptyDict, PyStr(s_thing2), thing2)
    /\ custom_permissions = EmptyDict
    /\ app_tags = EmptyList
    /\ app_properties = EmptyDict
    /\ property_definitions =
          [ns \in ApplicationNamespaces \cup {"role_assignment_properties"} |-> Declared_ab]
          @@ [resource_properties |-> DictSet(EmptyDict, PyStr(<<"t">>), Declared_ab)]
    /\ idp_users = CaseInsensitiveDict_setitem(EmptyDict, PyStr(s_Bob),
                        CustomIdPUser(PyStr(s_Bob), PyNone, PyNone, PyNone, "idp"))
    /\ idp_groups = CaseInsensitiveDict_setitem(EmptyDict, PyStr(s_Bob),
                        CustomIdPGroup(PyStr(s_Bob), PyNone, PyNone, "idp"))
    /\ idp_apps = CaseInsensitiveDict_setitem(EmptyDict, PyStr(s_Al),
                        CustomIdPApp(PyStr(s_Al), PyStr(s_Bob), "idp"))
    /\ idp_domain = CustomIdPDomain(PyStr(s_example_com), "idp")
    /\ idp_property_definitions = [ns \in IdPNamespaces |-> Declared_ab]
    /\ hris_employees = CaseInsensitiveDict_setitem(EmptyDict, PyStr(s_Al),
          [HRISEmployee(PyStr(s_Al), PyStr(s_Bob), PyStr(s_x), PyStr(s_Bob), PyStr(s_x), PyTrue, PyStr(s_x))
              EXCEPT !._property_definitions = "employee_properties"])
    /\ hris_groups = CaseInsensitiveDict_setitem(EmptyDict, PyStr(s_Al),
          [HRISGroup(PyStr(s_Al), PyStr(s_Bob), PyStr(s_x))
              EXCEPT !._property_definitions = "group_properties"])
    /\ hris_property_definitions =
          [ns \in HRISNamespaces |->
              CaseInsensitiveDict_setitem(EmptyDict, PyStr(s_ab), PropertyType("STRING"))]
    /\ payload = <<>>
    /\ entities = <<>>
    /\ operations = <<>>
    /\ requests = <<>>
    /\ server = NoTenant
    /\ result = Return("__init__", [name |-> PyNone])
    /\ calls = 0

\* property names: the declared one in another letter case, and an undeclared one
SetPropertyNames == {PyStr(s_AB), PyStr(s_zz)}
SetPropertyValues == {PyStr(s_x), PyNone}

SetPropertyCall ==
    \E property_name \in SetPropertyNames, property_value \in SetPropertyValues,
       ignore_none \in BOOLEAN :
       \/ CustomApplication_set_property(property_name, property_value, ignore_none)
       \/ \E path \in ResourcePaths(resources) :
             CustomResource_set_property(path, property_name, property_value, ignore_none)
       \/ \E ref \in IdentityRefs :
             Identity_set_property(ref, property_name, property_value, ignore_none)
       \/ \E i \in 1..Len(local_roles) :
             LocalRole_set_property(local_roles[i].k, property_name, property_value, ignore_none)
       \/ \E ref \in IdPEntityRefs :
             IdP_set_property(ref, property_name, property_value, ignore_none)
       \/ \E ref \in HRISEntityRefs :
             HRIS_set_property(ref, property_name, property_value, ignore_none)

NextProps == calls < MaxSetPropertyCalls /\ SetPropertyCall

SpecProps == InitProps /\ [][NextProps]_vars

---------------------------------------------------------------------------
(* C6 *)

\* the names declared in the registry namespace of the entity; an IdP identity
\* of an application has no namespace
DeclaredNames(self) ==
    CASE self.coll = "application" -> DictKeys(property_definitions.application_properties)
      [] self.coll = "resources" ->
            IF DictContains(property_definitions.resource_properties,
                            ResourceAt(resources, self.path).resource_type)
            THEN DictKeys(DictGet(property_definitions.resource_properties,
                                  ResourceAt(resources, self.path).resource_type))
            ELSE <<>>
      [] self.coll = "local_users" -> DictKeys(property_definitions.local_user_properties)
      [] self.coll = "local_groups" -> DictKeys(property_definitions.local_group_properties)
      [] self.coll = "local_roles" -> DictKeys(property_definitions.local_role_properties)
      [] self.coll = "access_creds" -> DictKeys(property_definitions.access_cred_properties)
      [] self.coll = "idp_identities" -> <<>>
      [] self.coll \in IdPKinds -> DictKeys(idp_property_definitions[IdPNamespaceOf(self.coll)])
      [] self.coll = "hris_employees" -> DictKeys(hris_property_definitions.employee_properties)
      [] self.coll = "hris_groups" -> DictKeys(hris_property_definitions.group_properties)

UndeclaredFor(self, name) ==
    \A i \in 1..Len(DeclaredNames(self)) : Lower(DeclaredNames(self)[i].v) # Lower(name.v)

\* the resource's type has no declared property at all
TypeWithoutProperties(self) ==
    /\ self.coll = "resources"
    /\ ~DictContains(property_definitions.resource_properties,
                     ResourceAt(resources, self.path).resource_type)

NothingChanged == UNCHANGED <<appVars, idpVars, hrisVars>>

C6_Original_Step ==
    (result'.op = "set_property" /\ UndeclaredFor(result'.args.self, result'.args.name))
       => /\ ~result'.ok
          /\ result'.error.arg = result'.args.name
          /\ NothingChanged

\* C6 as stated: on every entity that carries custom properties set_property
\* with a name not declared in the entity's namespace fails with an error
\* whose message names the offending property, and changes no property.
C6_UndeclaredPropertyFails == [][C6_Original_Step]_vars

C6_Step ==
    LET self == result'.args.self
        skipped == /\ result'.args.ignore_none
                   /\ result'.args.value = PyNone
                   /\ self.coll \notin HRISKinds \cup {"idp_identities"}
    IN
    (result'.op = "set_property" /\ UndeclaredFor(self, result'.args.name))
       => /\ NothingChanged
          /\ result'.ok = skipped
          /\ ~skipped =>
                result'.error.arg = (IF self.coll = "idp_identities" THEN PyNone
                                     ELSE IF TypeWithoutProperties(self)
                                     THEN ResourceAt(resources, self.path).resource_type
                                     ELSE result'.args.name)

\* C6: set_property with a name not declared in the entity's namespace changes
\* no property.  It fails, except that on every entity other than an HRIS
\* employee or group a call with ignore_none true and value None returns
\* without error.  The message of the error names the offending property,
\* except that for a resource whose type has no declared property it names the
\* resource type, and for an IdP identity of an application (which has no
\* namespace, so every call fails) it is a fixed text.
C6_UndeclaredPropertyNotSet == [][C6_Step]_vars

\* set_property with an undeclared name has failed, naming the property, on a
\* resource whose type has declared properties
C6_Witness ==
    /\ result.op = "set_property" /\ ~result.ok
    /\ result.args.self.coll = "resources"
    /\ ~TypeWithoutProperties(result.args.self)
    /\ UndeclaredFor(result.args.self, result.args.name)
    /\ result.error.arg = result.args.name

---------------------------------------------------------------------------
(* Resources: building the resource tree of an application, and the       *)
(* operations that touch existing resources.                              *)

\* calls made in one run of SpecResource
MaxResourceCalls == 5

\* the key of a tag must match ^[\w\d_]+$ and a non-empty value
\* ^[\w\d\s_,@\.-]+$ (character classes given for ASCII text)
Digits == {"0", "1", "2", "3", "4", "5", "6", "7", "8", "9"}
WordChars == LowerCaseLetters \cup { UpperLetters[i] : i \in 1..Len(UpperLetters) } \cup Digits \cup {"_"}
TagKeyMatches(key) ==
    LET body == IF Len(key) > 0 /\ key[Len(key)] = "\n" THEN SubSeq(key, 1, Len(key) - 1) ELSE key
    IN Len(body) >= 1 /\ \A i \in 1..Len(body) : body[i] \in WordChars
TagValueMatches(value) ==
    LET body == IF Len(value) > 0 /\ value[Len(value)] = "\n"
                THEN SubSeq(value, 1, Len(value) - 1) ELSE value
    IN Len(body) >= 1
       /\ \A i \in 1..Len(body) : body[i] \in WordChars \cup {" ", "\t", "\n", ",", "@", ".", "-"}

\* Tag.__init__: the exception it raises, or NoError
Tag_error(key, value) ==
    IF ~TagKeyMatches(str(key).v)
    THEN Exc("OAATemplateException", "Invalid characters in tag key. Key '{self.key}'.", str(key))
    ELSE IF str(value).v # <<>> /\ ~TagValueMatches(str(value).v)
    THEN Exc("OAATemplateException", "Invalid characters in tag value. Value '{self.value}'.", str(value))
    ELSE NoError
\* Tag(key, value)
Tag(key, value) == [key |-> str(key), value |-> str(value)]

\* mutant: the tag is appended without looking for it in the list
TagsAfter_appended(tags, key, value) ==
    IF Tag_error(key, value) # NoError THEN tags ELSE Append(tags, Tag(key, value))

\* tags after `if tag not in self.tags: self.tags.append(tag)`
TagsAfter(tags, key, value) ==
    IF Tag_error(key, value) # NoError \/ ListContains(tags, Tag(key, value)) THEN tags
    ELSE Append(tags, Tag(key, value))

\* CustomResource.add_tag on the resource at `path`
CustomResource_add_tag(path, key, value) ==
    LET self == ResourceAt(resources, path)
        args == [self |-> EntityRef("resources", PyNone, path), key |-> key, value |-> value]
    IN
    /\ resources' = ReplaceResourceAt(resources, path,
                       [self EXCEPT !.tags = TagsAfter(@, key, value)])
    /\ IF Tag_error(key, value) # NoError
       THEN Step(Raise("add_tag", args, Tag_error(key, value)))
       ELSE Step(Return("add_tag", args))
    /\ UNCHANGED <<local_users, local_groups, local_roles, idp_identities, access_creds,
                   custom_permissions, app_tags, app_properties, property_definitions>>
    /\ UNCHANGED <<idpVars, hrisVars>>

\* CustomResource.add_resource_connection on the resource at `path`
add_resource_connection(path, id, node_type) ==
    LET self == ResourceAt(resources, path)
        args == [self |-> EntityRef("resources", PyNone, path), id |-> id, node_type |-> node_type]
        connection == [id |-> str(id), node_type |-> str(node_type)]
        error == IF ~Truthy(id)
                 THEN Exc("OAATemplateException", "resource connection id cannot be None", PyNone)
                 ELSE IF ~Truthy(node_type)
                 THEN Exc("OAATemplateException", "resource connection node_type cannot be None", PyNone)
                 ELSE NoError
    IN
    /\ resources' = ReplaceResourceAt(resources, path,
          [self EXCEPT !.connections =
              IF error # NoError \/ ListContains(@, connection) THEN @ ELSE Append(@, connection)])
    /\ IF error # NoError
       THEN Step(Raise("add_resource_connection", args, error))
       ELSE Step(Return("add_resource_connection", args))
    /\ UNCHANGED <<local_users, local_groups, local_roles, idp_identities, access_creds,
                   custom_permissions, app_tags, app_properties, property_definitions>>
    /\ UNCHANGED <<idpVars, hrisVars>>

\* an integer argument, held as its decimal digits
PyInt(digits) == [t |-> "int", v |-> digits]

InitResource ==
    /\ local_users = CaseInsensitiveDict_setitem(EmptyDict, PyStr(s_Bob),
                        LocalUser(PyStr(s_Bob), PyNone, "application"))
    /\ local_groups = EmptyDict
    /\ local_roles = EmptyDict
    /\ idp_identities = EmptyDict
    /\ access_creds = EmptyDict
    /\ resources = EmptyDict
    /\ custom_permissions = EmptyDict
    /\ app_tags = EmptyList
    /\ app_properties = EmptyDict
    /\ property_definitions =
          [ApplicationPropertyDefinitions EXCEPT
             !.resource_properties = DictSet(@, PyStr(<<"t">>), Declared_ab)]
    /\ idp_users = EmptyDict
    /\ idp_groups = EmptyDict
    /\ idp_apps = EmptyDict
    /\ idp_domain = CustomIdPDomain(PyStr(s_example_com), "idp")
    /\ idp_property_definitions = IdPPropertyDefinitions
    /\ hris_employees = EmptyDict
    /\ hris_groups = EmptyDict
    /\ hris_property_definitions = HRISPropertyDefinitions
    /\ payload = <<>>
    /\ entities = <<>>
    /\ operations = <<>>
    /\ requests = <<>>
    /\ server = NoTenant
    /\ result = Return("__init__", [name |-> PyNone])
    /\ calls = 0

\* unique ids given to resources: none, or the integer 7
ResourceUniqueIds == {PyNone, PyInt(<<"7">>)}

ResourceCall ==
    \/ \E unique_id \in ResourceUniqueIds :
          add_resource(PyStr(s_thing2), PyStr(<<"t">>), unique_id)
    \/ \E path \in ResourcePaths(resources), unique_id \in ResourceUniqueIds :
          add_sub_resource(path, PyStr(s_cog1), PyStr(<<"t">>), unique_id)
    \/ \E path \in ResourcePaths(resources), key \in {PyStr(s_ab), PyStr(s_a_space_b)} :
          CustomResource_add_tag(path, key, PyStr(<<>>))
    \/ \E path \in ResourcePaths(resources), id \in {PyStr(s_x), PyNone} :
          add_resource_connection(path, id, PyStr(s_y))
    \/ \E path \in ResourcePaths(resources), property_name \in SetPropertyNames :
          CustomResource_set_property(path, property_name, PyStr(s_x), FALSE)
    \/ \E ref \in IdentityRefs, path \in ResourcePaths(resources) :
          Identity_add_permission(ref, PyStr(s_view),
              ResourcesList(<<ResourceObject(ResourceAt(resources, path))>>), PyFalse)
    \/ \E ref \in IdentityRefs, path \in ResourcePaths(resources) :
          Identity_add_role(ref, PyStr(s_admin),
              ResourcesList(<<ResourceObject(ResourceAt(resources, path))>>), PyNone, EmptyDict)

NextResource == calls < MaxResourceCalls /\ ResourceCall

SpecResource == InitResource /\ [][NextResource]_vars

---------------------------------------------------------------------------
(* C4 *)

\* the resource at `path` of tree `d` has the key its place in the tree gives it
KeyFollowsRule(d, path) ==
    LET self == ResourceAt(d, path)
        identifier == str(EntityIdentifier(self))
    IN IF Len(path) = 1
       THEN self.resource_key = identifier
       ELSE self.resource_key =
               PyStr(ResourceAt(d, SubSeq(path, 1, Len(path) - 1)).resource_key.v
                     \o <<".">> \o identifier.v)

C4_Step ==
    /\ \A path \in ResourcePaths(resources') : KeyFollowsRule(resources', path)
    /\ \A path \in ResourcePaths(resources) :
          /\ path \in ResourcePaths(resources')
          /\ ResourceAt(resources', path).resource_key = ResourceAt(resources, path).resource_key

\* C4: a resource created by add_resource has resource_key equal to its
\* identifier (unique_id when given, otherwise name, as a string), a resource
\* created by add_sub_resource has resource_key equal to its parent's
\* resource_key + "." + its own identifier, and no later builder operation
\* changes the resource_key of an existing resource.
C4_ResourceKeyFixed == [][C4_Step]_vars

\* a sub-resource with a unique id exists under a resource, and a grant naming
\* a resource has since been stored
C4_Witness ==
    /\ result.op \in {"add_permission", "add_role"} /\ result.ok
    /\ \E path \in ResourcePaths(resources) :
          /\ Len(path) = 2
          /\ Truthy(ResourceAt(resources, path).unique_id)
          /\ ResourceAt(resources, path).resource_key.v
                = ResourceAt(resources, <<path[1]>>).resource_key.v \o <<".", "7">>

---------------------------------------------------------------------------
(* Serialization of the IdP provider and of the HRIS provider *)

\* CustomIdPProvider(name, idp_type, domain), HRISProvider(name, hris_type, url)
idp_name == PyStr(<<"i","d","p">>)
idp_type == PyStr(<<"i","t","y","p","e">>)
hris_name == PyStr(<<"h","r","i","s">>)
hris_type == PyStr(<<"h","t","y","p","e">>)
hris_url == PyStr(<<"u","r","l">>)

\* CustomIdPDomain.to_dict
CustomIdPDomain_to_dict(self) ==
    [name |-> self.name, tags |-> TagDicts(self._tags), custom_properties |-> self._properties]

\* CustomIdPUser.to_dict; department, is_active, is_guest, manager_id and
\* identity_type stay None as constructed and are filtered out with the other
\* None, [] and {} values
CustomIdPUser_to_dict(self) ==
    [name |-> self.name,
     identity |-> IF Truthy(self.identity) THEN self.identity ELSE self.name]
    @@ OptKey(self.email # PyNone, "email", self.email)
    @@ OptKey(self.full_name # PyNone, "full_name", self.full_name)
    @@ OptKey(self._groups # <<>>, "groups", DictValues(self._groups))
    @@ OptKey(self._assumed_roles # <<>>, "assumed_role_arns", DictValues(self._assumed_roles))
    @@ OptKey(self._source_identity # PyNone, "source_identity", self._source_identity)
    @@ OptKey(self._tags # <<>>, "tags", TagDicts(self._tags))
    @@ OptKey(self._properties # <<>>, "custom_properties", self._properties)
    @@ OptKey(self._app_assignments # <<>>, "app_assignments", DictValues(self._app_assignments))

\* CustomIdPGroup.to_dict; is_security_group stays None as constructed
CustomIdPGroup_to_dict(self) ==
    [name |-> self.name,
     identity |-> IF Truthy(self.identity) THEN self.identity ELSE self.name]
    @@ OptKey(self.full_name # PyNone, "full_name", self.full_name)
    @@ OptKey(self._assumed_roles # <<>>, "assumed_role_arns", DictValues(self._assumed_roles))
    @@ OptKey(self._groups # <<>>, "groups", DictValues(self._groups))
    @@ OptKey(self._tags # <<>>, "tags", TagDicts(self._tags))
    @@ OptKey(self._properties # <<>>, "custom_properties", self._properties)
    @@ OptKey(self._app_assignments # <<>>, "app_assignments", DictValues(self._app_assignments))

\* CustomIdPApp.to_dict
CustomIdPApp_to_dict(self) ==
    [id |-> self.id,
     name |-> self.name,
     description |-> PyStr(<<>>),
     assumed_role_arns |-> DictValues(self._assumed_roles),
     custom_properties |-> self._properties,
     tags |-> TagDicts(self._tags)]

\* IdPPropertyDefinitions.to_dict: every namespace, empty or not
IdPPropertyDefinitions_to_dict(self) ==
    [domain_properties |-> self.domain_properties,
     user_properties |-> self.user_properties,
     group_properties |-> self.group_properties,
     app_properties |-> self.app_properties,
     app_assignment_properties |-> self.app_assignment_properties]

\* CustomIdPProvider.get_payload
CustomIdPProvider_get_payload ==
    /\ payload' = [custom_property_definition |-> IdPPropertyDefinitions_to_dict(idp_property_definitions),
                   name |-> idp_name,
                   idp_type |-> idp_type,
                   domains |-> <<CustomIdPDomain_to_dict(idp_domain)>>,
                   users |-> [i \in 1..Len(idp_users) |-> CustomIdPUser_to_dict(idp_users[i].v)],
                   groups |-> [i \in 1..Len(idp_groups) |-> CustomIdPGroup_to_dict(idp_groups[i].v)],
                   apps |-> [i \in 1..Len(idp_apps) |-> CustomIdPApp_to_dict(idp_apps[i].v)]]
    /\ result' = Return("get_payload", [self |-> "CustomIdPProvider"])
    /\ calls' = calls + 1
    /\ UNCHANGED <<dictVars, clientVars>>
    /\ UNCHANGED <<appVars, idpVars, hrisVars>>

\* HRISSystem.to_dict
HRISSystem_to_dict ==
    [id |-> hris_name, name |-> hris_name, url |-> hris_url, idp_providers |-> EmptyList]

\* HRISEmployee.to_dict; the optional attributes stay None as constructed and
\* are filtered out with the other None, [], {} and "" values
HRISEmployee_to_dict(self) ==
    OptKey(Truthy(self.unique_id), "id", self.unique_id)
    @@ OptKey(Truthy(self.name), "name", self.name)
    @@ OptKey(Truthy(self.employee_number), "employee_number", self.employee_number)
    @@ OptKey(Truthy(self.first_name), "first_name", self.first_name)
    @@ OptKey(Truthy(self.last_name), "last_name", self.last_name)
    @@ OptKey(Truthy(self.employment_status), "employment_status", self.employment_status)
    @@ OptKey(self.custom_properties # <<>>, "custom_properties", self.custom_properties)
    @@ OptKey(self.is_active.t = "bool", "is_active", self.is_active)
    @@ OptKey(self.groups # <<>>, "groups", [i \in 1..Len(self.groups) |-> [id |-> self.groups[i]]])
    @@ OptKey(self.managers # <<>>, "managers",
              [i \in 1..Len(self.managers) |-> [id |-> self.managers[i]]])

\* HRISGroup.to_dict
HRISGroup_to_dict(self) ==
    OptKey(self.unique_id # PyNone, "id", self.unique_id)
    @@ OptKey(self.name # PyNone, "name", self.name)
    @@ OptKey(self.group_type # PyNone, "group_type", self.group_type)
    @@ OptKey(self.custom_properties # <<>>, "custom_properties", self.custom_properties)

\* HRISPropertyDefinitions.to_dict: every namespace, empty or not
HRISPropertyDefinitions_to_dict(self) ==
    [system_properties |-> self.system_properties,
     employee_properties |-> self.employee_properties,
     group_properties |-> self.group_properties]

\* HRISProvider.get_payload
HRISProvider_get_payload ==
    /\ payload' = [name |-> hris_name,
                   hris_type |-> hris_type,
                   custom_property_definition |-> HRISPropertyDefinitions_to_dict(hris_property_definitions),
                   system |-> HRISSystem_to_dict,
                   employees |-> [i \in 1..Len(hris_employees) |-> HRISEmployee_to_dict(hris_employees[i].v)],
                   groups |-> [i \in 1..Len(hris_groups) |-> HRISGroup_to_dict(hris_groups[i].v)]]
    /\ result' = Return("get_payload", [self |-> "HRISProvider"])
    /\ calls' = calls + 1
    /\ UNCHANGED <<dictVars, clientVars>>
    /\ UNCHANGED <<appVars, idpVars, hrisVars>>

---------------------------------------------------------------------------
(* Payloads: get_payload of the three aggregates, between builder calls,  *)
(* on aggregates that hold one entity of every kind and a role whose      *)
(* permission list repeats a name in another letter case.                 *)

\* calls made in one run of SpecPayload
MaxPayloadCalls == 3

s_View == <<"V","i","e","w">>

InitPayload ==
    /\ local_users = CaseInsensitiveDict_setitem(EmptyDict, PyStr(s_Bob),
                        LocalUser(PyStr(s_Bob), PyNone, "application"))
    /\ local_groups = CaseInsensitiveDict_setitem(EmptyDict, PyStr(s_Bob),
                        LocalGroup(PyStr(s_Bob), PyNone, "application"))
    /\ local_roles = CaseInsensitiveDict_setitem(EmptyDict, PyStr(s_admin),
                        LocalRole(PyStr(s_admin), <<PyStr(s_view), PyStr(s_View)>>, PyNone, "application"))
    /\ idp_identities = CaseInsensitiveDict_setitem(EmptyDict, PyStr(s_al), IdPIdentity(PyStr(s_al)))
    /\ access_creds = CaseInsensitiveDict_setitem(EmptyDict, PyStr(s_Al),
                        AccessCred(PyStr(s_Al), PyStr(s_Bob), "application"))
    /\ resources = CaseInsensitiveDict_setitem(EmptyDict, PyStr(s_thing2), thing2)
    /\ custom_permissions = CaseInsensitiveDict_setitem(EmptyDict, PyStr(s_view),
                        CustomPermission(PyStr(s_view), PermArg("list", <<"DataRead">>), FALSE, EmptyList))
    /\ app_tags = EmptyList
    /\ app_properties = EmptyDict
    /\ property_definitions =
          [ns \in ApplicationNamespaces \cup {"role_assignment_properties"} |-> Declared_ab]
          @@ [resource_properties |-> DictSet(EmptyDict, PyStr(<<"t">>), Declared_ab)]
    /\ idp_users = CaseInsensitiveDict_setitem(EmptyDict, PyStr(s_Bob),
                        CustomIdPUser(PyStr(s_Bob), PyNone, PyNone, PyNone, "idp"))
    /\ idp_groups = CaseInsensitiveDict_setitem(EmptyDict, PyStr(s_Bob),
                        CustomIdPGroup(PyStr(s_Bob), PyNone, PyNone, "idp"))
    /\ idp_apps = CaseInsensitiveDict_setitem(EmptyDict, PyStr(s_Al),
                        CustomIdPApp(PyStr(s_Al), PyStr(s_Bob), "idp"))
    /\ idp_domain = CustomIdPDomain(PyStr(s_example_com), "idp")
    /\ idp_property_definitions = [ns \in IdPNamespaces |-> Declared_ab]
    /\ hris_employees = CaseInsensitiveDict_setitem(EmptyDict, PyStr(s_Al),
          [HRISEmployee(PyStr(s_Al), PyStr(s_Bob), PyStr(s_x), PyStr(s_Bob), PyStr(s_x), PyFalse, PyStr(s_x))
              EXCEPT !._property_definitions = "employee_properties"])
    /\ hris_groups = CaseInsensitiveDict_setitem(EmptyDict, PyStr(s_Al),
          [HRISGroup(PyStr(s_Al), PyStr(s_Bob), PyStr(s_x))
              EXCEPT !._property_definitions = "group_properties"])
    /\ hris_property_definitions =
          [ns \in HRISNamespaces |->
              CaseInsensitiveDict_setitem(EmptyDict, PyStr(s_ab), PropertyType("STRING"))]
    /\ payload = <<>>
    /\ entities = <<>>
    /\ operations = <<>>
    /\ requests = <<>>
    /\ server = NoTenant
    /\ result = Return("__init__", [name |-> PyNone])
    /\ calls = 0

PayloadCall ==
    \/ get_payload
    \/ CustomIdPProvider_get_payload
    \/ HRISProvider_get_payload
    \/ \E ref \in IdentityRefs :
          Identity_add_permission(ref, PyStr(s_view), ResourcesList(<<ResourceObject(thing2)>>), PyTrue)
    \/ \E ref \in IdentityRefs, apply_to_application \in {PyNone, PyTrue} :
          Identity_add_role(ref, PyStr(s_admin), ResourcesNone, apply_to_application, EmptyDict)
    \/ CustomApplication_set_property(PyStr(s_ab), PyStr(s_x), FALSE)
    \/ \E path \in ResourcePaths(resources) : CustomResource_add_tag(path, PyStr(s_ab), PyStr(s_x))
    \/ \E ref \in IdPEntityRefs : IdP_set_property(ref, PyStr(s_ab), PyStr(s_x), FALSE)
    \/ \E ref \in HRISEntityRefs : HRIS_set_property(ref, PyStr(s_ab), PyStr(s_x), FALSE)

NextPayload == calls < MaxPayloadCalls /\ PayloadCall

SpecPayload == InitPayload /\ [][NextPayload]_vars

---------------------------------------------------------------------------
(* C2 *)

C2_Step ==
    result'.op = "get_payload" =>
       /\ NothingChanged
       /\ (result.op = "get_payload" /\ result.args = result'.args) => payload' = payload

\* C2: get_payload on CustomApplication, CustomIdPProvider and HRISProvider
\* leaves every owned collection, grant record, property map and registry
\* unchanged, and two successive calls on the same aggregate with no builder
\* operation between them return equal documents.
C2_GetPayloadPure == [][C2_Step]_vars

\* the application payload was produced twice in a row while a role held a
\* permission name twice and an identity held a role assignment
C2_Witness ==
    /\ result.op = "get_payload" /\ result.args.self = "CustomApplication"
    /\ calls = 3
    /\ Len(payload.identity_to_permissions) = 1
    /\ \E i \in 1..Len(local_roles) :
          Len(local_roles[i].v.permissions) > Len(payload.applications[1].local_roles[i].permissions)

---------------------------------------------------------------------------
(* C11 *)

\* the names a flat namespace dict records
DeclaredIn(d) == { d[i].k : i \in 1..Len(d) }

\* C11: after any sequence of define_local_role_property and
\* define_role_assignment_property calls no property name is declared both
\* as a local-role property and as a role-assignment property.  (Violated:
\* define_local_role_property never looks at the role-assignment names.)
C11_RoleNamesDisjoint ==
    DeclaredIn(property_definitions.local_role_properties)
       \cap DeclaredIn(property_definitions.role_assignment_properties) = {}

---------------------------------------------------------------------------
(* Registries and payloads: define_* calls on the three registries of     *)
(* freshly constructed aggregates, and get_payload between them           *)

\* calls made in one run of SpecRegistry
MaxRegistryCalls == 2

RegistryCall ==
    \/ DefineCall
    \/ get_payload
    \/ CustomIdPProvider_get_payload
    \/ HRISProvider_get_payload

NextRegistry == calls < MaxRegistryCalls /\ RegistryCall

SpecRegistry == Init /\ [][NextRegistry]_vars

---------------------------------------------------------------------------
(* C12 *)

\* the serialized registry of the aggregate whose payload was produced last
SerializedRegistry ==
    IF result.args.self = "CustomApplication"
    THEN payload.custom_property_definition.applications[1]
    ELSE payload.custom_property_definition

\* every namespace the serialized registry holds has a declared property
NamespacesDeclared(registry) ==
    \A ns \in DOMAIN registry \ {"application_type", "resources"} : registry[ns] # <<>>

\* every resource type the serialized registry holds has a declared property
ResourceTypesDeclared(registry) ==
    "resources" \in DOMAIN registry =>
       /\ registry.resources # <<>>
       /\ \A i \in 1..Len(registry.resources) : registry.resources[i].properties # <<>>

\* C12: the serialized property-definition registry of each aggregate
\* (application, IdP and HRIS) holds only namespaces, and for resources only
\* resource types, with at least one declared property.  (Violated: the IdP
\* and HRIS registries emit every namespace, empty or not.)
C12_OnlyDeclaredNamespaces ==
    result.op = "get_payload" =>
       NamespacesDeclared(SerializedRegistry) /\ ResourceTypesDeclared(SerializedRegistry)

\* the same for the application registry alone
C12_ApplicationOnlyDeclared ==
    (result.op = "get_payload" /\ result.args.self = "CustomApplication") =>
       NamespacesDeclared(SerializedRegistry) /\ ResourceTypesDeclared(SerializedRegistry)

---------------------------------------------------------------------------
(* C13 *)

\* the fields of the serialized entities that hold a list or a map; the
\* other fields hold a scalar, and apply_to_sub_resources a flag
ListOrMapFields ==
    {"tags", "custom_properties", "roles", "permissions", "identities", "groups",
     "access_creds", "connections", "sub_resources", "resource_types", "permission_type",
     "local_users", "local_groups", "local_roles", "local_access_creds", "resources",
     "assumed_role_arns", "app_assignments", "idp_providers", "managers"}

\* the value of field k is None, [], {} or ""
FieldIsEmpty(k, v) ==
    IF k \in ListOrMapFields THEN v = <<>>
    ELSE IF k = "apply_to_sub_resources" THEN FALSE
    ELSE v \in {PyNone, PyStr(<<>>)}

OmitsEmptyFields(doc) == \A k \in DOMAIN doc : ~FieldIsEmpty(k, doc[k])

EachOmitsEmptyFields(docs) == \A i \in 1..Len(docs) : OmitsEmptyFields(docs[i])

RECURSIVE ResourceOmitsEmptyFields(_)
ResourceOmitsEmptyFields(doc) ==
    /\ OmitsEmptyFields(doc)
    /\ "sub_resources" \in DOMAIN doc =>
          \A i \in 1..Len(doc.sub_resources) : ResourceOmitsEmptyFields(doc.sub_resources[i])

ApplicationOmitsEmptyFields ==
    LET app == payload.applications[1] IN
    /\ OmitsEmptyFields(app)
    /\ EachOmitsEmptyFields(app.local_users)
    /\ EachOmitsEmptyFields(app.local_groups)
    /\ EachOmitsEmptyFields(app.local_roles)
    /\ EachOmitsEmptyFields(app.local_access_creds)
    /\ \A i \in 1..Len(app.resources) : ResourceOmitsEmptyFields(app.resources[i])
    /\ EachOmitsEmptyFields(payload.permissions)

IdPOmitsEmptyFields ==
    /\ EachOmitsEmptyFields(payload.domains)
    /\ EachOmitsEmptyFields(payload.users)
    /\ EachOmitsEmptyFields(payload.groups)
    /\ EachOmitsEmptyFields(payload.apps)

HRISOmitsEmptyFields ==
    /\ OmitsEmptyFields(payload.system)
    /\ EachOmitsEmptyFields(payload.employees)
    /\ EachOmitsEmptyFields(payload.groups)

\* a flag that is false on the entity is false in its document
KeepsFalse ==
    CASE result.args.self = "CustomApplication" ->
            \A i \in 1..Len(custom_permissions) :
               /\ "apply_to_sub_resources" \in DOMAIN payload.permissions[i]
               /\ payload.permissions[i].apply_to_sub_resources
                     = custom_permissions[i].v.apply_to_sub_resources
      [] result.args.self = "HRISProvider" ->
            \A i \in 1..Len(hris_employees) :
               hris_employees[i].v.is_active = PyFalse =>
                  /\ "is_active" \in DOMAIN payload.employees[i]
                  /\ payload.employees[i].is_active = PyFalse
      [] OTHER -> TRUE

\* C13: in every document returned by get_payload each serialized entity
\* omits every field whose value is None, an empty list, an empty map or an
\* empty string, and keeps every field whose value is false.  (Violated: the
\* application, local roles, custom permissions, the IdP domain and apps and
\* the HRIS system are emitted unfiltered.)
C13_EmptyFieldsOmitted ==
    result.op = "get_payload" =>
       /\ KeepsFalse
       /\ CASE result.args.self = "CustomApplication" -> ApplicationOmitsEmptyFields
            [] result.args.self = "CustomIdPProvider" -> IdPOmitsEmptyFields
            [] OTHER -> HRISOmitsEmptyFields

---------------------------------------------------------------------------
(* Nested roles and groups *)

\* a Python list value
PyList(items) == [t |-> "list", v |-> items]

\* append_helper(base, addition) with base a list and addition not a list:
\* None adds nothing, anything else is appended
append_helper(base, addition) == IF addition = PyNone THEN base ELSE Append(base, addition)

\* mutant: only the name is compared
GivenIsSelf_by_name(unique_id, name, given) == name = given

\* (self.unique_id and self.unique_id == given) or (self.unique_id is None and self.name == given)
GivenIsSelf(unique_id, name, given) ==
    \/ Truthy(unique_id) /\ unique_id = given
    \/ unique_id = PyNone /\ name = given

\* LocalRole.add_role
LocalRole_add_role(key, role_arg) ==
    LET self == DictGet(local_roles, key)
        role == str(role_arg)
        args == [self |-> EntityRef("local_roles", key, <<>>), given |-> role]
    IN
    /\ IF GivenIsSelf(self.unique_id, self.name, role)
       THEN /\ Step(Raise("LocalRole.add_role", args,
                          Exc("OAATemplateException", "Cannot add role to self", PyNone)))
            /\ UNCHANGED local_roles
       ELSE /\ local_roles' = DictSet(local_roles, key,
                                 [self EXCEPT !.roles = append_helper(@, role)])
            /\ Step(Return("LocalRole.add_role", args))
    /\ UNCHANGED <<local_users, local_groups, idp_identities, access_creds, resources,
                   custom_permissions, app_tags, app_properties, property_definitions>>
    /\ UNCHANGED <<idpVars, hrisVars>>

\* LocalGroup.add_group
LocalGroup_add_group(key, group_arg) ==
    LET self == DictGet(local_groups, key)
        group == str(group_arg)
        args == [self |-> EntityRef("local_groups", key, <<>>), given |-> group]
    IN
    /\ IF GivenIsSelf(self.unique_id, self.name, group)
       THEN /\ Step(Raise("LocalGroup.add_group", args,
                          Exc("OAATemplateException", "Cannot add group to self", PyNone)))
            /\ UNCHANGED local_groups
       ELSE /\ local_groups' = DictSet(local_groups, key,
                                  [self EXCEPT !.groups = append_helper(@, group)])
            /\ Step(Return("LocalGroup.add_group", args))
    /\ UNCHANGED <<local_users, local_roles, idp_identities, access_creds, resources,
                   custom_permissions, app_tags, app_properties, property_definitions>>
    /\ UNCHANGED <<idpVars, hrisVars>>

\* (self.identity and given == self.identity) or (not self.identity and given == self.name)
GivenIsOwnIdentity(identity, name, given) ==
    \/ Truthy(identity) /\ given = identity
    \/ ~Truthy(identity) /\ given = name

\* the loop of CustomIdPGroup.add_groups from element i on: the groups dict
\* when the loop ends or raises, and the element it raised on (None if none)
RECURSIVE add_groups_loop(_, _, _, _)
add_groups_loop(self, groups, group_identities, i) ==
    IF i > Len(group_identities) THEN [groups |-> groups, raised_on |-> PyNone]
    ELSE IF GivenIsOwnIdentity(self.identity, self.name, group_identities[i])
    THEN [groups |-> groups, raised_on |-> group_identities[i]]
    ELSE add_groups_loop(self,
            IF DictContains(groups, group_identities[i]) THEN groups
            ELSE DictSet(groups, group_identities[i], [identity |-> group_identities[i]]),
            group_identities, i + 1)

\* CustomIdPGroup.add_groups
CustomIdPGroup_add_groups(key, group_identities) ==
    LET self == DictGet(idp_groups, key)
        args == [self |-> EntityRef("idp_groups", key, <<>>), given |-> group_identities]
        loop == add_groups_loop(self, self._groups, group_identities.v, 1)
    IN
    /\ IF group_identities.t # "list"
       THEN /\ Step(Raise("CustomIdPGroup.add_groups", args,
                          Exc("OAATemplateException", "group_identities must be list", PyNone)))
            /\ UNCHANGED idp_groups
       ELSE /\ idp_groups' = DictSet(idp_groups, key, [self EXCEPT !._groups = loop.groups])
            /\ IF loop.raised_on # PyNone
               THEN Step(Raise("CustomIdPGroup.add_groups", args,
                               Exc("OAATemplateException",
                                   "Cannot add a group to itself '{group_identity}'", loop.raised_on)))
               ELSE Step(Return("CustomIdPGroup.add_groups", args))
    /\ UNCHANGED <<idp_users, idp_apps, idp_domain, idp_property_definitions>>
    /\ UNCHANGED <<appVars, hrisVars>>

---------------------------------------------------------------------------
(* Nesting: add_role and add_group(s) on roles and groups added with and  *)
(* without a unique_id or identity                                        *)

\* calls made in one run of SpecNest
MaxNestCalls == 3

InitNest ==
    /\ local_users = EmptyDict
    /\ local_groups = CaseInsensitiveDict_setitem(
                         CaseInsensitiveDict_setitem(EmptyDict, PyStr(s_Bob),
                            LocalGroup(PyStr(s_Bob), PyNone, "application")),
                         PyStr(s_al), LocalGroup(PyStr(s_admin), PyStr(s_al), "application"))
    /\ local_roles = CaseInsensitiveDict_setitem(
                         CaseInsensitiveDict_setitem(EmptyDict, PyStr(s_Bob),
                            LocalRole(PyStr(s_Bob), EmptyList, PyNone, "application")),
                         PyStr(s_al), LocalRole(PyStr(s_admin), EmptyList, PyStr(s_al), "application"))
    /\ idp_identities = EmptyDict
    /\ access_creds = EmptyDict
    /\ resources = EmptyDict
    /\ custom_permissions = EmptyDict
    /\ app_tags = EmptyList
    /\ app_properties = EmptyDict
    /\ property_definitions = ApplicationPropertyDefinitions
    /\ idp_users = EmptyDict
    /\ idp_groups = CaseInsensitiveDict_setitem(
                         CaseInsensitiveDict_setitem(EmptyDict, PyStr(s_Bob),
                            CustomIdPGroup(PyStr(s_Bob), PyNone, PyNone, "idp")),
                         PyStr(s_al), CustomIdPGroup(PyStr(s_admin), PyNone, PyStr(s_al), "idp"))
    /\ idp_apps = EmptyDict
    /\ idp_domain = CustomIdPDomain(PyStr(s_example_com), "idp")
    /\ idp_property_definitions = IdPPropertyDefinitions
    /\ hris_employees = EmptyDict
    /\ hris_groups = EmptyDict
    /\ hris_property_definitions = HRISPropertyDefinitions
    /\ payload = <<>>
    /\ entities = <<>>
    /\ operations = <<>>
    /\ requests = <<>>
    /\ server = NoTenant
    /\ result = Return("__init__", [name |-> PyNone])
    /\ calls = 0

\* identifiers given to add_role and add_group: the names and unique_ids in
\* use, a name in another letter case, and None
NestArgs == {PyStr(s_Bob), PyStr(s_bob), PyStr(s_admin), PyStr(s_al), PyNone}

\* group_identities arguments: lists of one and two identifiers, and a string
NestListArgs ==
    { PyList(<<g>>) : g \in NestArgs \ {PyNone} }
    \cup { PyList(<<PyStr(s_x), g>>) : g \in {PyStr(s_Bob), PyStr(s_al)} }
    \cup { PyStr(s_Bob) }

NestCall ==
    \/ \E i \in 1..Len(local_roles), role \in NestArgs : LocalRole_add_role(local_roles[i].k, role)
    \/ \E i \in 1..Len(local_groups), group \in NestArgs : LocalGroup_add_group(local_groups[i].k, group)
    \/ \E i \in 1..Len(idp_groups), group_identities \in NestListArgs :
          CustomIdPGroup_add_groups(idp_groups[i].k, group_identities)

NextNest == calls < MaxNestCalls /\ NestCall

SpecNest == InitNest /\ [][NextNest]_vars

---------------------------------------------------------------------------
(* C14 *)

\* no role or group lists its own identifier among its nested roles or groups
NoSelfNesting ==
    /\ \A i \in 1..Len(local_roles) :
          ~ListContains(local_roles[i].v.roles, EntityIdentifier(local_roles[i].v))
    /\ \A i \in 1..Len(local_groups) :
          ~ListContains(local_groups[i].v.groups, EntityIdentifier(local_groups[i].v))
    /\ \A i \in 1..Len(idp_groups) :
          ~DictContains(idp_groups[i].v._groups, IdPEntityIdentifier(idp_groups[i].v))

\* the entity a nesting call was made on, before the call
NestTarget ==
    CASE result'.args.self.coll = "local_roles" -> DictGet(local_roles, result'.args.self.key)
      [] result'.args.self.coll = "local_groups" -> DictGet(local_groups, result'.args.self.key)
      [] OTHER -> DictGet(idp_groups, result'.args.self.key)

\* the call gave the entity's own identifier
OwnIdentifierGiven ==
    IF result'.op = "CustomIdPGroup.add_groups"
    THEN /\ result'.args.given.t = "list"
         /\ ListContains(result'.args.given.v, IdPEntityIdentifier(NestTarget))
    ELSE result'.args.given = EntityIdentifier(NestTarget)

C14_Step ==
    result'.op \in {"LocalRole.add_role", "LocalGroup.add_group", "CustomIdPGroup.add_groups"} =>
       /\ OwnIdentifierGiven => (~result'.ok /\ result'.error.type = "OAATemplateException")
       /\ NoSelfNesting'

\* C14: LocalRole.add_role, LocalGroup.add_group and CustomIdPGroup.add_groups
\* fail when a given identifier equals the entity's own identifier (its
\* unique_id/identity when set, otherwise its name), and after every such
\* call no role or group lists its own identifier among its nested roles or
\* groups.
C14_NoSelfNesting == [][C14_Step]_vars

\* a role added with a unique_id was asked to nest its own unique_id, after
\* it had nested another role; the call failed
C14_Witness ==
    /\ result.op = "LocalRole.add_role"
    /\ ~result.ok
    /\ LET self == DictGet(local_roles, result.args.self.key) IN
       /\ self.unique_id # PyNone
       /\ result.args.given = self.unique_id
       /\ self.roles # <<>>

---------------------------------------------------------------------------
(* Ordering: identities added to a fresh application in any order, granted *)
(* an application permission in any order, and the payload                *)

\* calls made in one run of SpecOrder
MaxOrderCalls == 5

OrderCall ==
    \/ \E name \in {PyStr(s_Bob), PyStr(s_al)} : add_local_user(name, PyNone)
    \/ add_local_group(PyStr(s_Bob), PyNone)
    \/ add_idp_identity(PyStr(s_al))
    \/ add_access_cred(PyStr(s_Al), PyStr(s_Bob))
    \/ \E ref \in IdentityRefs :
          Identity_add_permission(ref, PyStr(s_view), ResourcesNone, PyTrue)
    \/ get_payload

NextOrder == calls < MaxOrderCalls /\ OrderCall

SpecOrder == Init /\ [][NextOrder]_vars

---------------------------------------------------------------------------
(* C15 *)

\* the identities of the application: local_users first, then local_groups,
\* idp_identities and access_creds, each in the order of its collection
IdentitiesInOrder ==
    LET identities == DictValues(local_users) \o DictValues(local_groups)
                      \o DictValues(idp_identities) \o DictValues(access_creds)
    IN [i \in 1..Len(identities) |->
          [identity |-> EntityIdentifier(identities[i]),
           identity_type |-> identities[i].identity_type]]

\* the place of an entry's identity among the identities of the application
PlaceOf(entry) ==
    { p \in 1..Len(IdentitiesInOrder) :
        /\ IdentitiesInOrder[p].identity = entry.identity
        /\ IdentitiesInOrder[p].identity_type = entry.identity_type }

\* C15: identity_to_permissions holds the entries of local_users first, then
\* local_groups, idp_identities and access_creds, and within a collection in
\* the order the identities were added, whatever the order of the grants.
C15_EntriesInIdentityOrder ==
    (result.op = "get_payload" /\ result.args.self = "CustomApplication") =>
       LET entries == payload.identity_to_permissions IN
       /\ \A i \in 1..Len(entries) : PlaceOf(entries[i]) # {}
       /\ \A i, j \in 1..Len(entries) :
             i < j => \A p \in PlaceOf(entries[i]), q \in PlaceOf(entries[j]) : p < q

\* a payload whose first two entries are those of the two local users, al
\* added before Bob
C15_Witness ==
    /\ result.op = "get_payload" /\ result.args.self = "CustomApplication"
    /\ Len(payload.identity_to_permissions) >= 2
    /\ Len(local_users) = 2
    /\ payload.identity_to_permissions[1].identity_type = "local_user"
    /\ payload.identity_to_permissions[2].identity_type = "local_user"
    /\ payload.identity_to_permissions[1].identity = PyStr(s_al)
    /\ payload.identity_to_permissions[2].identity = PyStr(s_Bob)

---------------------------------------------------------------------------
(* Custom permissions: construction, directly and through                 *)
(* add_custom_permission, with every kind of permissions argument         *)

\* calls made in one run of SpecPermission
MaxPermissionCalls == 3

\* permissions arguments: lists of enum members, the empty list, a list with
\* a plain string, one enum member, a plain string, and None
PermissionArgs ==
    {PermArg("list", <<"DataRead">>), PermArg("list", <<"DataRead", "NonData">>),
     PermArg("list", <<>>), PermArg("list", <<"DataRead", "read">>),
     PermArg("enum", <<"DataWrite">>), PermArg("other", <<"DataRead">>),
     PermArg("none", <<>>)}

PermissionCall ==
    \/ \E name \in {PyStr(s_view), PyStr(s_admin)}, p \in PermissionArgs :
          add_custom_permission(name, p, FALSE, EmptyList)
    \/ \E name \in {PyStr(s_view), PyStr(s_admin)}, p \in PermissionArgs :
          define_custom_permission(name, p)
    \/ get_payload

NextPermission == calls < MaxPermissionCalls /\ PermissionCall

SpecPermission == Init /\ [][NextPermission]_vars

---------------------------------------------------------------------------
(* C16 *)

\* the call constructs a custom permission: CustomPermission(...) followed by
\* define_custom_permission (named "CustomPermission" when the constructor
\* raises), or add_custom_permission
ConstructsPermission ==
    result'.op \in {"CustomPermission", "define_custom_permission", "add_custom_permission"}

AllCanonical(items) == \A i \in 1..Len(items) : items[i] \in OAAPermission

\* the permission the call stored has this permission_type
StoredWith(permission_type) ==
    /\ result'.ok
    /\ CaseInsensitiveDict_contains(custom_permissions', result'.args.name)
    /\ CaseInsensitiveDict_getitem(custom_permissions', result'.args.name).permission_type
          = permission_type

C16_Step ==
    (ConstructsPermission /\ ~CaseInsensitiveDict_contains(custom_permissions, result'.args.name)) =>
       LET permissions == result'.args.permissions IN
       CASE permissions.kind = "list" /\ AllCanonical(permissions.items) ->
               StoredWith(permissions.items)
         [] permissions.kind = "enum" /\ AllCanonical(permissions.items) ->
               StoredWith(<<permissions.items[1]>>)
         [] OTHER -> ~result'.ok /\ custom_permissions' = custom_permissions

\* C16: CustomPermission construction, directly or through
\* add_custom_permission, accepts a list whose members are all canonical
\* OAAPermission values, accepts a single OAAPermission value and wraps it
\* into a one-element list, and fails on anything else.  (Violated:
\* add_custom_permission rejects a single value, and the constructor accepts
\* None.)
C16_PermissionsValidated == [][C16_Step]_vars

\* the permission_type of every custom permission in a payload holds only
\* canonical verbs
C16_PayloadVerbsCanonical ==
    (result.op = "get_payload" /\ result.args.self = "CustomApplication") =>
       \A i \in 1..Len(payload.permissions) : AllCanonical(payload.permissions[i].permission_type)

---------------------------------------------------------------------------
(* Role permissions *)

\* LocalRole.add_permissions
LocalRole_add_permissions(key, permissions) ==
    LET self == DictGet(local_roles, key)
        args == [self |-> EntityRef("local_roles", key, <<>>), permissions |-> permissions]
    IN
    /\ IF permissions.t # "list"
       THEN /\ Step(Raise("LocalRole.add_permissions", args,
                          Exc("OAATemplateException", "permissions must be list", PyNone)))
            /\ UNCHANGED local_roles
       ELSE IF ~(\A i \in 1..Len(permissions.v) : permissions.v[i].t = "str")
       THEN /\ Step(Raise("LocalRole.add_permissions", args,
                          Exc("OAATemplateException",
                              "permissions must be names of permissions as strings", PyNone)))
            /\ UNCHANGED local_roles
       ELSE /\ local_roles' = DictSet(local_roles, key,
                                 [self EXCEPT !.permissions = @ \o permissions.v])
            /\ Step(Return("LocalRole.add_permissions", args))
    /\ UNCHANGED <<local_users, local_groups, idp_identities, access_creds, resources,
                   custom_permissions, app_tags, app_properties, property_definitions>>
    /\ UNCHANGED <<idpVars, hrisVars>>

---------------------------------------------------------------------------
(* Role permissions: a role constructed with a permission list, extended  *)
(* by add_permissions, and serialized                                     *)

\* calls made in one run of SpecRolePermissions
MaxRolePermissionCalls == 4

\* longest permission list given in one call
MaxPermissionsGiven == 2

PermissionNames == {PyStr(s_view), PyStr(s_View), PyStr(s_admin)}

\* lists of at most MaxPermissionsGiven permission names
PermissionNameLists ==
    UNION { [1..n -> PermissionNames] : n \in 0..MaxPermissionsGiven }

RolePermissionCall ==
    \/ \E permissions \in PermissionNameLists : add_local_role(PyStr(s_admin), permissions, PyNone)
    \/ \E i \in 1..Len(local_roles), permissions \in PermissionNameLists \ {<<>>} :
          LocalRole_add_permissions(local_roles[i].k, PyList(permissions))
    \/ \E i \in 1..Len(local_roles),
          permissions \in {PyStr(s_view), PyList(<<PyStr(s_view), PyInt(<<"7">>)>>)} :
          LocalRole_add_permissions(local_roles[i].k, permissions)
    \/ get_payload

NextRolePermission == calls < MaxRolePermissionCalls /\ RolePermissionCall

SpecRolePermissions == Init /\ [][NextRolePermission]_vars

---------------------------------------------------------------------------
(* C17 *)

\* the place in `names` of the first name equal to `name` up to letter case
FirstOccurrence(names, name) ==
    CHOOSE p \in 1..Len(names) :
       /\ Lower(names[p].v) = Lower(name.v)
       /\ \A q \in 1..(p - 1) : Lower(names[q].v) # Lower(name.v)

\* `listed` holds each name of `names` once up to letter case, spelled as
\* and ordered by its first occurrence in `names`
ListsFirstOccurrences(listed, names) ==
    /\ \A p \in 1..Len(names) : \E k \in 1..Len(listed) : Lower(listed[k].v) = Lower(names[p].v)
    /\ \A k, l \in 1..Len(listed) : k # l => Lower(listed[k].v) # Lower(listed[l].v)
    /\ \A k \in 1..Len(listed) :
          /\ \E p \in 1..Len(names) : Lower(names[p].v) = Lower(listed[k].v)
          /\ listed[k] = names[FirstOccurrence(names, listed[k])]
    /\ \A k, l \in 1..Len(listed) :
          k < l => FirstOccurrence(names, listed[k]) < FirstOccurrence(names, listed[l])

\* C17: for any permissions given to a LocalRole through its constructor and
\* any sequence of add_permissions calls, the serialized role lists each
\* permission name once under case-insensitive comparison, in the casing and
\* at the position of its first occurrence.
C17_RolePermissionsUnique ==
    (result.op = "get_payload" /\ result.args.self = "CustomApplication") =>
       \A i \in 1..Len(local_roles) :
          ListsFirstOccurrences(payload.applications[1].local_roles[i].permissions,
                                local_roles[i].v.permissions)

\* a role constructed with [View, admin] and extended with a list that
\* repeats view in another casing was serialized
C17_Witness ==
    /\ result.op = "get_payload" /\ result.args.self = "CustomApplication"
    /\ Len(local_roles) = 1
    /\ local_roles[1].v.permissions = <<PyStr(s_View), PyStr(s_admin), PyStr(s_view), PyStr(s_admin)>>
    /\ payload.applications[1].local_roles[1].permissions = <<PyStr(s_View), PyStr(s_admin)>>

---------------------------------------------------------------------------
(* Tags, resource types, group memberships and assumable roles *)

\* add_tag of CustomApplication, LocalUser, LocalGroup, IdPIdentity,
\* AccessCred and LocalRole
Entity_add_tag(ref, key, value) ==
    LET args == [self |-> ref, key |-> key, value |-> value]
        identity == IdentityOf(ref)
        role == DictGet(local_roles, ref.key)
    IN
    /\ app_tags' = IF ref.coll = "application" THEN TagsAfter(app_tags, key, value) ELSE app_tags
    /\ local_roles' = IF ref.coll = "local_roles"
                      THEN DictSet(local_roles, ref.key, [role EXCEPT !.tags = TagsAfter(@, key, value)])
                      ELSE local_roles
    /\ IF ref.coll \in IdentityCollections
       THEN StoreIdentity(ref, [identity EXCEPT !.tags = TagsAfter(@, key, value)])
       ELSE UNCHANGED <<local_users, local_groups, idp_identities, access_creds>>
    /\ IF Tag_error(key, value) # NoError
       THEN Step(Raise("add_tag", args, Tag_error(key, value)))
       ELSE Step(Return("add_tag", args))
    /\ UNCHANGED <<resources, custom_permissions, app_properties, property_definitions>>
    /\ UNCHANGED <<idpVars, hrisVars>>

\* the IdP entity `ref` is mutated in place to `new`
StoreIdPEntity(ref, new) ==
    /\ idp_domain' = IF ref.coll = "idp_domain" THEN new ELSE idp_domain
    /\ idp_users' = IF ref.coll = "idp_users" THEN DictSet(idp_users, ref.key, new) ELSE idp_users
    /\ idp_groups' = IF ref.coll = "idp_groups" THEN DictSet(idp_groups, ref.key, new) ELSE idp_groups
    /\ idp_apps' = IF ref.coll = "idp_apps" THEN DictSet(idp_apps, ref.key, new) ELSE idp_apps

\* add_tag of CustomIdPDomain, CustomIdPUser, CustomIdPGroup and CustomIdPApp
IdP_add_tag(ref, key, value) ==
    LET args == [self |-> ref, key |-> key, value |-> value]
        self == IdPEntityOf(ref)
    IN
    /\ StoreIdPEntity(ref, [self EXCEPT !._tags = TagsAfter(@, key, value)])
    /\ IF Tag_error(key, value) # NoError
       THEN Step(Raise("add_tag", args, Tag_error(key, value)))
       ELSE Step(Return("add_tag", args))
    /\ UNCHANGED idp_property_definitions
    /\ UNCHANGED <<appVars, hrisVars>>

\* CustomPermission.add_resource_type
CustomPermission_add_resource_type(key, resource_type) ==
    LET self == DictGet(custom_permissions, key)
        args == [self |-> EntityRef("custom_permissions", key, <<>>), resource_type |-> resource_type]
    IN
    /\ custom_permissions' = DictSet(custom_permissions, key,
          [self EXCEPT !.resource_types =
              IF ListContains(@, resource_type) THEN @ ELSE Append(@, resource_type)])
    /\ Step(Return("add_resource_type", args))
    /\ UNCHANGED <<local_users, local_groups, local_roles, idp_identities, access_creds,
                   resources, app_tags, app_properties, property_definitions>>
    /\ UNCHANGED <<idpVars, hrisVars>>

\* for x in items: if x not in d: d[x] = {"identity": x}
RECURSIVE add_identities(_, _)
add_identities(d, items) ==
    IF items = <<>> THEN d
    ELSE add_identities(IF DictContains(d, Head(items)) THEN d
                        ELSE DictSet(d, Head(items), [identity |-> Head(items)]),
                        Tail(items))

\* CustomIdPUser.add_groups
CustomIdPUser_add_groups(key, group_identities) ==
    LET self == DictGet(idp_users, key)
        args == [self |-> EntityRef("idp_users", key, <<>>), given |-> group_identities]
    IN
    /\ IF group_identities.t # "list"
       THEN /\ Step(Raise("CustomIdPUser.add_groups", args,
                          Exc("OAATemplateException", "group_identities must be list", PyNone)))
            /\ UNCHANGED idp_users
       ELSE /\ idp_users' = DictSet(idp_users, key,
                               [self EXCEPT !._groups = add_identities(@, group_identities.v)])
            /\ Step(Return("CustomIdPUser.add_groups", args))
    /\ UNCHANGED <<idp_groups, idp_apps, idp_domain, idp_property_definitions>>
    /\ UNCHANGED <<appVars, hrisVars>>

\* CustomIdPUser.add_assumed_role_arns and CustomIdPGroup.add_assumed_role_arns
add_assumed_role_arns(ref, arns) ==
    LET self == IdPEntityOf(ref)
        args == [self |-> ref, given |-> arns]
    IN
    /\ IF arns.t # "list"
       THEN /\ Step(Raise("add_assumed_role_arns", args,
                          Exc("OAATemplateException", "arns must be of type list", PyNone)))
            /\ UNCHANGED <<idp_users, idp_groups, idp_apps, idp_domain>>
       ELSE /\ StoreIdPEntity(ref, [self EXCEPT !._assumed_roles = add_identities(@, arns.v)])
            /\ Step(Return("add_assumed_role_arns", args))
    /\ UNCHANGED idp_property_definitions
    /\ UNCHANGED <<appVars, hrisVars>>

---------------------------------------------------------------------------
(* Appending: the operations that append an element unless it is present, *)
(* on an application and an IdP provider holding an entity of every kind  *)

\* calls made in one run of SpecAppend
MaxAppendCalls == 3

\* tag arguments: a key alone, a key with a value, and a key with a space
TagArgs == {<<PyStr(s_ab), PyStr(<<>>)>>, <<PyStr(s_ab), PyStr(s_x)>>,
            <<PyStr(s_a_space_b), PyStr(<<>>)>>}

\* list arguments of add_groups and add_assumed_role_arns: one element, one
\* element twice, two elements, and a string
IdentityListArgs ==
    {PyList(<<PyStr(s_x)>>), PyList(<<PyStr(s_y)>>), PyList(<<PyStr(s_x), PyStr(s_x)>>),
     PyList(<<PyStr(s_y), PyStr(s_x)>>), PyStr(s_x)}

AppendCall ==
    \/ \E ref \in {EntityRef("application", PyNone, <<>>)}
                  \cup { EntityRef(r.coll, r.key, <<>>) : r \in IdentityRefs }
                  \cup { EntityRef("local_roles", local_roles[i].k, <<>>) : i \in 1..Len(local_roles) },
          tag \in TagArgs :
          Entity_add_tag(ref, tag[1], tag[2])
    \/ \E path \in ResourcePaths(resources), tag \in TagArgs :
          CustomResource_add_tag(path, tag[1], tag[2])
    \/ \E ref \in IdPEntityRefs, tag \in TagArgs : IdP_add_tag(ref, tag[1], tag[2])
    \/ \E path \in ResourcePaths(resources), id \in {PyStr(s_x), PyNone},
          node_type \in {PyStr(s_x), PyStr(s_y)} :
          add_resource_connection(path, id, node_type)
    \/ \E i \in 1..Len(custom_permissions), resource_type \in {PyStr(<<"t">>), PyStr(<<"c">>)} :
          CustomPermission_add_resource_type(custom_permissions[i].k, resource_type)
    \/ \E i \in 1..Len(idp_users), group_identities \in IdentityListArgs :
          CustomIdPUser_add_groups(idp_users[i].k, group_identities)
    \/ \E i \in 1..Len(idp_groups), group_identities \in IdentityListArgs :
          CustomIdPGroup_add_groups(idp_groups[i].k, group_identities)
    \/ \E ref \in { r \in IdPEntityRefs : r.coll \in {"idp_users", "idp_groups"} },
          arns \in IdentityListArgs :
          add_assumed_role_arns(ref, arns)

NextAppend == calls < MaxAppendCalls /\ AppendCall

SpecAppend == InitPayload /\ [][NextAppend]_vars

---------------------------------------------------------------------------
(* C18 *)

AppendOps == {"add_tag", "add_resource_connection", "add_resource_type",
              "CustomIdPUser.add_groups", "CustomIdPGroup.add_groups", "add_assumed_role_arns"}

\* the list (or the entries of the dict) the call `r` appends to
AppendTarget(r) ==
    LET ref == r.args.self IN
    CASE r.op = "add_tag" /\ ref.coll = "application" -> app_tags
      [] r.op = "add_tag" /\ ref.coll \in IdentityCollections -> IdentityOf(ref).tags
      [] r.op = "add_tag" /\ ref.coll = "local_roles" -> DictGet(local_roles, ref.key).tags
      [] r.op = "add_tag" /\ ref.coll = "resources" -> ResourceAt(resources, ref.path).tags
      [] r.op = "add_tag" -> IdPEntityOf(ref)._tags
      [] r.op = "add_resource_connection" -> ResourceAt(resources, ref.path).connections
      [] r.op = "add_resource_type" -> DictGet(custom_permissions, ref.key).resource_types
      [] r.op \in {"CustomIdPUser.add_groups", "CustomIdPGroup.add_groups"} -> IdPEntityOf(ref)._groups
      [] r.op = "add_assumed_role_arns" -> IdPEntityOf(ref)._assumed_roles

\* the elements the call `r` asks to store, as they are stored
GivenElements(r) ==
    CASE r.op = "add_tag" -> <<Tag(r.args.key, r.args.value)>>
      [] r.op = "add_resource_connection" ->
            <<[id |-> str(r.args.id), node_type |-> str(r.args.node_type)]>>
      [] r.op = "add_resource_type" -> <<r.args.resource_type>>
      [] OTHER -> IF r.args.given.t = "list"
                  THEN [i \in 1..Len(r.args.given.v) |->
                          [k |-> r.args.given.v[i], v |-> [identity |-> r.args.given.v[i]]]]
                  ELSE <<>>

\* `after` is `before` followed by elements of `given` that are not in
\* `before`, each once; when the call returned, every given element is there
AppendedOnce(r, before, after) ==
    /\ Len(after) >= Len(before)
    /\ SubSeq(after, 1, Len(before)) = before
    /\ \A i \in (Len(before) + 1)..Len(after) :
          /\ ListContains(GivenElements(r), after[i])
          /\ ~ListContains(before, after[i])
          /\ \A j \in (Len(before) + 1)..Len(after) : after[j] = after[i] => j = i
    /\ r.ok => \A i \in 1..Len(GivenElements(r)) : ListContains(after, GivenElements(r)[i])

C18_Step ==
    \E r \in {result'} :
       r.op \in AppendOps => AppendedOnce(r, AppendTarget(r), AppendTarget(r)')

\* C18: the dedup-appending operations (CustomPermission.add_resource_type,
\* CustomResource.add_resource_connection, add_tag on any entity, add_groups
\* and add_assumed_role_arns on IdP users and groups) never store an element
\* twice: a call whose element is already present, also one repeated inside
\* the argument list, leaves the list unchanged, and a new element is
\* appended after the existing ones.
C18_AppendedOnce == [][C18_Step]_vars

\* an IdP user that is in group x was added to the groups [y, x]: y was
\* appended after x, and x was not stored again
C18_Witness ==
    /\ result.op = "CustomIdPUser.add_groups"
    /\ result.ok
    /\ result.args.given = PyList(<<PyStr(s_y), PyStr(s_x)>>)
    /\ DictKeys(DictGet(idp_users, result.args.self.key)._groups) = <<PyStr(s_x), PyStr(s_y)>>

---------------------------------------------------------------------------
(* C19 *)

C19_Step ==
    (/\ result'.op = "set_property"
     /\ result'.args.ignore_none
     /\ result'.args.value = PyNone)
    => result'.ok /\ NothingChanged

\* C19: on every entity that has set_property, set_property(name, None,
\* ignore_none=True) raises no error, for any name, and leaves the entity's
\* properties unchanged.  (Violated: HRISEmployee and HRISGroup look the name
\* up before they look at ignore_none, and IdPIdentity always raises.)
C19_IgnoreNoneSkips == [][C19_Step]_vars

\* the same, on the entities other than HRIS employees and groups and the
\* IdP identities of an application
C19_IgnoreNoneSkipsElsewhere ==
    [][result'.args.self.coll \notin {"hris_employees", "hris_groups", "idp_identities"} => C19_Step]_vars

\* the properties are left unchanged in any case
C19_IgnoreNoneSetsNothing ==
    [][(result'.op = "set_property" /\ result'.args.ignore_none /\ result'.args.value = PyNone)
          => NothingChanged]_vars

---------------------------------------------------------------------------
(* Employees: HRISEmployee constructed on its own and through add_employee *)
(* with every combination of empty and non-empty required fields          *)

\* calls made in one run of SpecEmployee
MaxEmployeeCalls == 2

\* a required string field: filled or empty
FieldArgs == {PyStr(s_x), PyStr(<<>>)}
\* unique_id: two spellings of one identifier, another one, and None
EmployeeIdArgs == {PyStr(s_Al), PyStr(s_al), PyStr(s_Bob), PyNone}
\* is_active: the two booleans, None and the integer 1
IsActiveArgs == {PyTrue, PyFalse, PyNone, PyInt(<<"1">>)}

EmployeeCall ==
    \E unique_id \in EmployeeIdArgs, name \in FieldArgs, employee_number \in FieldArgs,
       first_name \in FieldArgs, last_name \in FieldArgs, is_active \in IsActiveArgs,
       employment_status \in FieldArgs :
       \/ HRISEmployee_init(unique_id, name, employee_number, first_name, last_name,
                            is_active, employment_status)
       \/ HRISProvider_add_employee(unique_id, name, employee_number, first_name, last_name,
                                    is_active, employment_status)

NextEmployee == calls < MaxEmployeeCalls /\ EmployeeCall

SpecEmployee == Init /\ [][NextEmployee]_vars

---------------------------------------------------------------------------
(* C20 *)

RequiredFields == {"unique_id", "name", "employee_number", "first_name", "last_name",
                   "employment_status"}

\* the required fields that are empty, and is_active when it is not a boolean
InvalidFields(args) ==
    { f \in RequiredFields : ~Truthy(args[f]) }
    \cup (IF args.is_active \in {PyTrue, PyFalse} THEN {} ELSE {"is_active"})

ConstructsEmployee == result'.op \in {"HRISEmployee", "HRISProvider.add_employee"}

\* add_employee was given a unique_id the provider already holds
EmployeePresent ==
    /\ result'.op = "HRISProvider.add_employee"
    /\ CaseInsensitiveDict_contains(hris_employees, result'.args.unique_id)

C20_Original_Step ==
    (ConstructsEmployee /\ InvalidFields(result'.args) # {}) =>
       /\ ~result'.ok
       /\ result'.error.type = "ValueError"
       /\ hris_employees' = hris_employees

\* C20 as stated: construction, directly or through add_employee, fails with
\* a value error whenever a required field is empty or is_active is not a
\* boolean, and a failed add_employee adds nothing.  (Violated: add_employee
\* looks for the unique_id among the employees first.)
C20_InvalidFieldIsValueError == [][C20_Original_Step]_vars

C20_Step ==
    (ConstructsEmployee /\ InvalidFields(result'.args) # {}) =>
       /\ ~result'.ok
       /\ result'.error.type = (IF EmployeePresent THEN "OAATemplateException" ELSE "ValueError")
       /\ hris_employees' = hris_employees

\* C20: HRISEmployee construction fails with a value error whenever any one
\* of unique_id, name, employee_number, first_name, last_name or
\* employment_status is empty or is_active is not a boolean, each field
\* independently of the others.  HRISProvider.add_employee fails in the same
\* way, except that for a unique_id the provider already holds it fails with
\* the duplicate error instead; a failed add_employee adds nothing to the
\* provider's employees.
C20_InvalidFieldFails == [][C20_Step]_vars

\* add_employee with only employment_status empty has failed on it, on a
\* provider that holds an employee
C20_Witness ==
    /\ result.op = "HRISProvider.add_employee"
    /\ InvalidFields(result.args) = {"employment_status"}
    /\ ~result.ok
    /\ result.error.message = "employment_status cannot be empty"
    /\ Len(hris_employees) = 1

---------------------------------------------------------------------------
(* HRIS properties: employees and groups added to an HRISProvider whose   *)
(* registry starts empty, declarations made before and after the adds,    *)
(* and set_property on added and on directly constructed entities.        *)

\* HRISEmployee(...).set_property(...) / HRISGroup(...).set_property(...) on an
\* entity constructed directly: _property_definitions is None
Detached_set_property(kind, property_name, property_value, ignore_none) ==
    LET self == IF kind = "hris_employees"
                THEN HRISEmployee(PyStr(s_Al), PyStr(s_Bob), PyStr(s_x), PyStr(s_Bob),
                                  PyStr(s_x), PyTrue, PyStr(s_x))
                ELSE HRISGroup(PyStr(s_Al), PyStr(s_Bob), PyStr(s_x))
        outcome == HRISSetPropertyOutcome(self._property_definitions,
                      IF kind = "hris_employees"
                      THEN "unknown employee property name {property_name}"
                      ELSE "unknown group property name {property_name}",
                      property_name, property_value, ignore_none)
    IN
    /\ SetPropertyResult(outcome, SetPropertyArgs(EntityRef("detached", PyNone, <<kind>>),
                                                  property_name, property_value, ignore_none))
    /\ UNCHANGED <<appVars, idpVars, hrisVars>>

\* calls made in one run of SpecHRISProps
MaxHRISCalls == 4

\* names declared: one name, and a second one
HRISDeclaredNames == {PyStr(s_ab), PyStr(s_zz)}
\* names set: the first in two letter cases, the second, and a name never declared
HRISSetNames == {PyStr(s_ab), PyStr(s_AB), PyStr(s_zz), PyStr(s_x)}

HRISPropsCall ==
    \/ \E namespace \in {"employee_properties", "group_properties"}, name \in HRISDeclaredNames :
          HRIS_define_property(namespace, name, PropertyType("STRING"))
    \/ HRISProvider_add_employee(PyStr(s_Al), PyStr(s_Bob), PyStr(s_x), PyStr(s_Bob),
                                 PyStr(s_x), PyTrue, PyStr(s_x))
    \/ HRISProvider_add_group(PyStr(s_Al), PyStr(s_Bob), PyStr(s_x))
    \/ \E property_name \in HRISSetNames, property_value \in SetPropertyValues,
          ignore_none \in BOOLEAN :
          \/ \E ref \in HRISEntityRefs :
                HRIS_set_property(ref, property_name, property_value, ignore_none)
          \/ \E kind \in HRISKinds :
                Detached_set_property(kind, property_name, property_value, ignore_none)

NextHRISProps == calls < MaxHRISCalls /\ HRISPropsCall

SpecHRISProps == Init /\ [][NextHRISProps]_vars

---------------------------------------------------------------------------
(* C21 *)

\* the namespace of the provider's registry an added employee or group is
\* validated against
HRISNamespaceOf(kind) ==
    IF kind = "hris_employees" THEN "employee_properties" ELSE "group_properties"

\* `name` is declared, in some letter case, in the namespace right now
HRISDeclared(kind, name) ==
    \E i \in 1..Len(hris_property_definitions[HRISNamespaceOf(kind)]) :
       Lower(hris_property_definitions[HRISNamespaceOf(kind)][i].k.v) = Lower(name.v)

C21_Step ==
    LET self == result'.args.self IN
    result'.op = "set_property" =>
       /\ self.coll \in HRISKinds => (result'.ok <=> HRISDeclared(self.coll, result'.args.name))
       /\ self.coll = "detached" => result'.ok
       /\ ~result'.ok => /\ result'.error.type = "OAATemplateException"
                         /\ UNCHANGED hrisVars

\* C21: set_property on an HRISEmployee or HRISGroup added through the
\* HRISProvider is rejected for every name that is not declared in the
\* provider's employee or group namespace when the call is made (also when
\* nothing is declared), and accepted for every name declared there in any
\* letter case, whether declared before or after the entity was added; on an
\* employee or group constructed directly it is accepted for every name.
C21_HRISPropertyNamesChecked == [][C21_Step]_vars

\* set_property has been accepted on an added employee for a name declared in
\* another letter case, and stored the value
C21_Witness ==
    /\ result.op = "set_property" /\ result.ok
    /\ result.args.self.coll = "hris_employees"
    /\ result.args.name = PyStr(s_AB)
    /\ DictKeys(hris_property_definitions.employee_properties) = <<PyStr(s_ab)>>
    /\ DictContains(hris_employees[1].v.custom_properties, PyStr(s_AB))

\* the name was declared after the employee had been added, and the employee
\* now accepts it: a declaration never leaves an added entity behind
C21_DeclaredLaterAccepted ==
    [][\E r \in {result'} :
          (r.op = "HRIS.define_property" /\ r.ok /\ Len(hris_employees) = 1
           /\ r.args.namespace = "employee_properties")
          => HRISSetPropertyOutcome(hris_employees[1].v._property_definitions, "", r.args.name,
                                    PyStr(s_x), FALSE)' = Sets]_vars

---------------------------------------------------------------------------
(* Resource keys: add_resource and add_sub_resource with names that may   *)
(* hold a dot and unique ids that may be numbers                          *)

\* calls made in one run of SpecKeys
MaxKeyCalls == 3

s_x_dot_y == <<"x", ".", "y">>

\* names given to resources: two plain names, and the two joined by a dot
KeyNames == {PyStr(s_x), PyStr(s_y), PyStr(s_x_dot_y)}
\* unique ids given to resources: none, or the integer 7
KeyUniqueIds == {PyNone, PyInt(<<"7">>)}

KeyCall ==
    \E name \in KeyNames \cup {PyStr(<<"7">>)}, unique_id \in KeyUniqueIds :
       \/ add_resource(name, PyStr(<<"t">>), unique_id)
       \/ \E path \in ResourcePaths(resources) :
             add_sub_resource(path, name, PyStr(<<"t">>), unique_id)

NextKeys == calls < MaxKeyCalls /\ KeyCall

SpecKeys == Init /\ [][NextKeys]_vars

---------------------------------------------------------------------------
(* C22 *)

\* C22 as stated: no two distinct resources or sub-resources of the
\* application have the same resource_key.  (Violated: the key is the dotted
\* join of the identifiers on the path, and an identifier may itself hold a
\* dot, or be a number whose text is another resource's name.)
C22_ResourceKeysUnique ==
    \A p, q \in ResourcePaths(resources) :
       p # q => ResourceAt(resources, p).resource_key # ResourceAt(resources, q).resource_key

\* within one dict of resources the keys do differ when every identifier
\* there is a string: the identifiers differ beyond letter case
C22_SiblingStringKeysDiffer ==
    \A p, q \in ResourcePaths(resources) :
       (/\ p # q /\ Len(p) = Len(q)
        /\ SubSeq(p, 1, Len(p) - 1) = SubSeq(q, 1, Len(q) - 1)
        /\ p[Len(p)].t = "str" /\ q[Len(q)].t = "str")
       => ResourceAt(resources, p).resource_key # ResourceAt(resources, q).resource_key

---------------------------------------------------------------------------
(* CaseInsensitiveDict on its own: set, delete and pop with keys that are *)
(* strings, byte strings and integers, next to the log of the operations  *)
(* from which a reference map is replayed.                                *)

PyBytes(s) == [t |-> "bytes", v |-> s]

KeyError(key) == Exc("KeyError", "{key}", key)

\* x[key] = value
Dict_setitem(key, value) ==
    /\ entities' = CaseInsensitiveDict_setitem(entities, key, value)
    /\ operations' = Append(operations, [op |-> "set", key |-> key, value |-> value])
    /\ result' = Return("__setitem__", [key |-> key, value |-> value])
    /\ calls' = calls + 1
    /\ UNCHANGED <<appVars, idpVars, hrisVars, payload, clientVars>>

\* del x[key]: KeyError when the lower-cased key is not in _entities
Dict_delitem(key) ==
    /\ IF CaseInsensitiveDict_contains(entities, key)
       THEN /\ entities' = CaseInsensitiveDict_delitem(entities, key)
            /\ result' = Return("__delitem__", [key |-> key, value |-> PyNone])
       ELSE /\ UNCHANGED entities
            /\ result' = Raise("__delitem__", [key |-> key, value |-> PyNone], KeyError(key))
    /\ operations' = Append(operations, [op |-> "delete", key |-> key, value |-> PyNone])
    /\ calls' = calls + 1
    /\ UNCHANGED <<appVars, idpVars, hrisVars, payload, clientVars>>

\* x.pop(key) of MutableMapping: value = self[key]; del self[key]; return value
Dict_pop(key) ==
    /\ IF CaseInsensitiveDict_contains(entities, key)
       THEN /\ entities' = CaseInsensitiveDict_delitem(entities, key)
            /\ result' = Return("pop", [key |-> key,
                                        value |-> CaseInsensitiveDict_getitem(entities, key)])
       ELSE /\ UNCHANGED entities
            /\ result' = Raise("pop", [key |-> key, value |-> PyNone], KeyError(key))
    /\ operations' = Append(operations, [op |-> "delete", key |-> key, value |-> PyNone])
    /\ calls' = calls + 1
    /\ UNCHANGED <<appVars, idpVars, hrisVars, payload, clientVars>>

\* operations made in one run of SpecDict
MaxDictCalls == 3

s_Ab == <<"A", "b">>

\* keys: one string in two letter cases, one byte string in two letter
\* cases, and the integer 1
DictKeyArgs == {PyStr(s_Ab), PyStr(s_ab), PyBytes(s_Ab), PyBytes(s_ab), PyInt(<<"1">>)}
DictValueArgs == {PyStr(s_x), PyStr(s_y)}

DictCall ==
    \E key \in DictKeyArgs :
       \/ \E value \in DictValueArgs : Dict_setitem(key, value)
       \/ Dict_delitem(key)
       \/ Dict_pop(key)

NextDict == calls < MaxDictCalls /\ DictCall

SpecDict == Init /\ [][NextDict]_vars

---------------------------------------------------------------------------
(* C23 *)

\* the key of the reference map: strings lower-cased; other keys as given,
\* or, with `lowered`, every key that has lower() lower-cased
NormalisedKey(key, lowered) ==
    IF key.t = "str" \/ (lowered /\ key.t = "bytes") THEN [t |-> key.t, v |-> Lower(key.v)]
    ELSE key

\* the reference map after the first n operations of the log: a sequence of
\* (key, value) pairs in order of first insertion
RECURSIVE ReferenceMap(_, _, _)
ReferenceMap(log, n, lowered) ==
    IF n = 0 THEN <<>>
    ELSE LET m == ReferenceMap(log, n - 1, lowered)
             k == NormalisedKey(log[n].key, lowered)
             at == { i \in 1..Len(m) : m[i][1] = k }
         IN IF log[n].op = "set"
            THEN IF at = {} THEN Append(m, <<k, log[n].value>>)
                 ELSE [i \in 1..Len(m) |-> IF i \in at THEN <<k, log[n].value>> ELSE m[i]]
            ELSE SelectSeq(m, LAMBDA e : e[1] # k)

ReferenceHas(m, k) == \E i \in 1..Len(m) : m[i][1] = k
ReferenceValue(m, k) == m[CHOOSE i \in 1..Len(m) : m[i][1] = k][2]

\* the reads of the dict agree with the reference map
AgreesWith(d, m, lowered) ==
    /\ CaseInsensitiveDict_len(d) = Len(m)
    /\ CaseInsensitiveDict_iter(d) = [i \in 1..Len(m) |-> m[i][1]]
    /\ \A key \in DictKeyArgs :
          LET k == NormalisedKey(key, lowered) IN
          /\ CaseInsensitiveDict_contains(d, key) <=> ReferenceHas(m, k)
          /\ ReferenceHas(m, k) =>
                /\ CaseInsensitiveDict_contains(d, key)
                /\ CaseInsensitiveDict_getitem(d, key) = ReferenceValue(m, k)
          /\ CaseInsensitiveDict_get(d, key, PyNone)
                = (IF ReferenceHas(m, k) THEN ReferenceValue(m, k) ELSE PyNone)

\* what a step of the dict must do, against the reference map
DictStepAgrees(lowered) ==
    LET before == ReferenceMap(operations, Len(operations), lowered)
        after == ReferenceMap(operations', Len(operations'), lowered)
        k == NormalisedKey(result'.args.key, lowered)
    IN
    /\ AgreesWith(entities', after, lowered)
    /\ result'.op \in {"__delitem__", "pop"} =>
          /\ result'.ok <=> ReferenceHas(before, k)
          /\ (result'.op = "pop" /\ ReferenceHas(before, k))
                => result'.args.value = ReferenceValue(before, k)
    /\ (result'.op = "__setitem__" /\ CaseInsensitiveDict_contains(entities, result'.args.key)) =>
          /\ CaseInsensitiveDict_iter(entities') = CaseInsensitiveDict_iter(entities)
          /\ CaseInsensitiveDict_len(entities') = CaseInsensitiveDict_len(entities)
          /\ CaseInsensitiveDict_getitem(entities', result'.args.key) = result'.args.value

\* C23 as stated: the dict agrees with an insertion-ordered map whose keys
\* are normalised by lower-casing strings and using every non-string key as
\* given.  (Violated: a byte string has lower() too and is lower-cased.)
C23_RefinesMapOverStrings == [][DictStepAgrees(FALSE)]_vars

\* C23: CaseInsensitiveDict behaves as an insertion-ordered map over
\* normalised keys, where a key that has lower() (a string, a byte string) is
\* lower-cased and every other key is used as given: after any sequence of
\* set, delete and pop its indexed read, get, containment test, length and
\* iteration agree with that map, iteration yields the keys in order of first
\* insertion, and writing an existing key in any letter case replaces the
\* value without changing the key's place or the length.
C23_RefinesMap == [][DictStepAgrees(TRUE)]_vars

\* a string key has been written again in another letter case while a key
\* inserted after it was present
C23_Witness ==
    /\ result.op = "__setitem__"
    /\ result.args.key = PyStr(s_Ab)
    /\ CaseInsensitiveDict_iter(entities) = <<PyStr(s_ab), PyInt(<<"1">>)>>
    /\ CaseInsensitiveDict_getitem(entities, PyStr(s_ab)) = PyStr(s_y)
    /\ Len(operations) = 3

---------------------------------------------------------------------------
(* Builders: the three aggregates built from nothing, with get_payload    *)
(* taken at any point between the builder calls                           *)

\* calls made in one run of SpecBuilder
MaxBuilderCalls == 4

\* the builder calls made in SpecBuilder
BuilderCalls ==
    [op : {"add_local_user", "CustomIdPProvider.add_user", "HRISProvider.add_group"},
     name : {PyStr(s_Bob), PyStr(s_bob), PyStr(s_Al)}]
    \cup [op : {"define_property"}, name : {PyStr(s_ab)}]
    \cup [op : {"set_property"}, name : {PyStr(s_AB), PyStr(s_zz)}]

Build(c) ==
    CASE c.op = "add_local_user" -> add_local_user(c.name, PyNone)
      [] c.op = "CustomIdPProvider.add_user" -> CustomIdPProvider_add_user(c.name, PyNone)
      [] c.op = "HRISProvider.add_group" -> HRISProvider_add_group(c.name, c.name, PyStr(s_x))
      [] c.op = "define_property" ->
            define_property("application_properties", c.name, PropertyType("STRING"))
      [] c.op = "set_property" -> CustomApplication_set_property(c.name, PyStr(s_x), FALSE)

BuilderCall ==
    \/ \E c \in BuilderCalls : Build(c)
    \/ get_payload
    \/ CustomIdPProvider_get_payload
    \/ HRISProvider_get_payload

NextBuilder == calls < MaxBuilderCalls /\ BuilderCall

SpecBuilder == Init /\ [][NextBuilder]_vars

---------------------------------------------------------------------------
(* C24 *)

\* the builder calls that would be accepted now
AcceptedCalls == { c \in BuilderCalls : ENABLED (Build(c) /\ result'.ok) }
\* ... and those that would be rejected now
RejectedCalls == { c \in BuilderCalls : ENABLED (Build(c) /\ ~result'.ok) }

\* the document holds everything the aggregate it was taken from holds now
ReflectsAggregate(doc, self) ==
    CASE self = "CustomApplication" ->
            /\ [i \in 1..Len(doc.applications[1].local_users) |->
                   doc.applications[1].local_users[i].name]
                  = [i \in 1..Len(local_users) |-> local_users[i].v.name]
            /\ doc.applications[1].custom_properties = app_properties
            /\ "application_properties" \in DOMAIN doc.custom_property_definition.applications[1]
                  <=> property_definitions.application_properties # <<>>
      [] self = "CustomIdPProvider" ->
            [i \in 1..Len(doc.users) |-> doc.users[i].name]
               = [i \in 1..Len(idp_users) |-> idp_users[i].v.name]
      [] self = "HRISProvider" ->
            [i \in 1..Len(doc.groups) |-> doc.groups[i].id]
               = [i \in 1..Len(hris_groups) |-> hris_groups[i].v.unique_id]

C24_Step ==
    result'.op = "get_payload" =>
       /\ AcceptedCalls' = AcceptedCalls
       /\ RejectedCalls' = RejectedCalls
       /\ \E r \in {result'} : ReflectsAggregate(payload, r.args.self)'

\* C24: an aggregate stays a mutable builder after get_payload: every builder
\* operation is accepted or rejected after the extraction exactly as it would
\* have been before it, and each later get_payload reflects all operations
\* performed since construction, those made after earlier extractions too.
C24_MutableAfterPayload == [][C24_Step]_vars

\* a local user has been added after a document of the application was
\* taken: that document holds one user, the application now two
C24_Witness ==
    /\ result.op = "add_local_user" /\ result.ok
    /\ "applications" \in DOMAIN payload
    /\ Len(payload.applications[1].local_users) = 1
    /\ Len(local_users) = 2

---------------------------------------------------------------------------
(* OAAClient: api_get, api_post and api_put against a tenant whose        *)
(* answers are given as a script, one response per request in order.      *)
(* A response is [ok, json]: ok is false for an HTTP error status, json   *)
(* is the decoded body, a function from its keys.                         *)

\* a page of a paginated answer; has_more is "true", "false" or "absent",
\* the token "" when the body has no next_page_token
PageResponse(values, has_more, token) ==
    [ok |-> TRUE,
     json |-> ("values" :> values)
              @@ OptKey(has_more # "absent", "has_more", has_more = "true")
              @@ OptKey(token # "", "next_page_token", token)]
\* a singular answer
ValueResponse(value) == [ok |-> TRUE, json |-> ("value" :> value)]
\* an answer with neither "values" nor "value"
PlainResponse == [ok |-> TRUE, json |-> ("warnings" :> <<>>)]
\* an error status with a JSON body
ErrorResponse == [ok |-> FALSE, json |-> ("code" :> "Internal") @@ ("message" :> "failed")]

\* response.get("has_more") is truthy
has_more(response) ==
    "has_more" \in DOMAIN response.json /\ response.json["has_more"]

\* mutant: the token of the response is not taken over
page_token_unset(response) == ""

\* params["page_token"] = response.get("next_page_token"), as urlencode sends it
page_token_after(response) ==
    IF "next_page_token" \in DOMAIN response.json THEN response.json["next_page_token"]
    ELSE "None"

Request(method, api_path, page_token) ==
    [method |-> method, api_path |-> api_path, page_token |-> page_token]

\* the `while True` loop of api_get, api_post and api_put from its i-th
\* request on: the requests sent and what is returned or raised; "pending"
\* when the script has no answer for a request
RECURSIVE api_loop(_, _, _, _, _, _)
api_loop(method, api_path, script, i, page_token, collected) ==
    IF i > Len(script) THEN [requests |-> <<>>, kind |-> "pending", value |-> collected]
    ELSE LET request == Request(method, api_path, page_token)
             response == script[i]
         IN IF ~response.ok
            THEN [requests |-> <<request>>, kind |-> "raise", value |-> "OAAResponseError"]
            ELSE IF "values" \in DOMAIN response.json
            THEN IF has_more(response)
                 THEN LET rest == api_loop(method, api_path, script, i + 1,
                                           page_token_after(response),
                                           collected \o response.json["values"])
                      IN [rest EXCEPT !.requests = <<request>> \o @]
                 ELSE [requests |-> <<request>>, kind |-> "list",
                       value |-> collected \o response.json["values"]]
            ELSE IF "value" \in DOMAIN response.json
            THEN [requests |-> <<request>>, kind |-> "value", value |-> response.json["value"]]
            ELSE [requests |-> <<request>>, kind |-> "response", value |-> response.json]

\* OAAClient.api_get / api_post / api_put (method GET, POST, PUT) called
\* without params
api_call(method, api_path, script) ==
    LET outcome == api_loop(method, api_path, script, 1, "", <<>>)
        args == [method |-> method, api_path |-> api_path, script |-> script,
                 returned |-> [kind |-> outcome.kind, value |-> outcome.value]]
    IN
    /\ outcome.kind # "pending"
    /\ requests' = outcome.requests
    /\ result' = IF outcome.kind = "raise"
                 THEN Raise("api_call", args, Exc("OAAResponseError", "failed", PyNone))
                 ELSE Return("api_call", args)
    /\ calls' = calls + 1
    /\ UNCHANGED <<appVars, idpVars, hrisVars, payload, dictVars, server>>

\* client calls made in one run of SpecPaging
MaxPagingCalls == 1
\* responses the tenant has ready for one call
MaxScriptLen == 3

Responses ==
    { PageResponse(values, more, token) :
         values \in {<<"1">>, <<"2", "3">>}, more \in {"true", "false", "absent"},
         token \in {"", "t1", "t2"} }
    \cup {ValueResponse("thing"), PlainResponse, ErrorResponse}

Scripts == UNION { [1..n -> Responses] : n \in 1..MaxScriptLen }

PagingCall ==
    \E script \in Scripts :
       \/ api_call("GET", "/mock/call", script)
       \/ api_call("POST", "/mock/call", script)
       \/ api_call("PUT", "/mock/call", script)

NextPaging == calls < MaxPagingCalls /\ PagingCall

SpecPaging == Init /\ [][NextPaging]_vars

---------------------------------------------------------------------------
(* C25 *)

IsPage(response) == response.ok /\ "values" \in DOMAIN response.json
HasMorePages(response) ==
    /\ IsPage(response)
    /\ "has_more" \in DOMAIN response.json
    /\ response.json["has_more"] = TRUE

\* the first response of the script after which nothing more is to be asked
LastPage(script) ==
    CHOOSE i \in 1..Len(script) :
       /\ ~HasMorePages(script[i])
       /\ \A j \in 1..(i - 1) : HasMorePages(script[j])

RECURSIVE ValuesOfPages(_, _)
ValuesOfPages(script, n) ==
    IF n = 0 THEN <<>> ELSE ValuesOfPages(script, n - 1) \o script[n].json["values"]

C25_Step ==
    result'.op = "api_call" =>
       LET script == result'.args.script
           last == LastPage(script)
           returned == result'.args.returned
       IN
       /\ Len(requests') = last
       /\ \A i \in 1..last :
             /\ requests'[i].method = result'.args.method
             /\ requests'[i].api_path = result'.args.api_path
       /\ requests'[1].page_token = ""
       /\ \A i \in 2..last :
             requests'[i].page_token =
                (IF "next_page_token" \in DOMAIN script[i - 1].json
                 THEN script[i - 1].json["next_page_token"] ELSE "None")
       /\ (\A i \in 1..last : IsPage(script[i])) =>
             /\ result'.ok
             /\ returned.kind = "list"
             /\ returned.value = ValuesOfPages(script, last)
       /\ (script[1].ok /\ ~IsPage(script[1])) =>
             /\ last = 1
             /\ result'.ok
             /\ returned.kind \in {"value", "response"}
             /\ returned.kind = "value" => returned.value = script[1].json["value"]
             /\ returned.kind = "response" => returned.value = script[1].json

---------------------------------------------------------------------------
(* OAAClient against a Veza tenant that holds providers and their data    *)
(* sources: create_provider, create_data_source and push_metadata.  The   *)
(* tenant answers a filtered list request with one page; `fails_at` makes *)
(* the n-th request of a call come back with an error status.             *)

\* ALLOWED_CHARACTERS = r"^[ @#$%&*:()!,a-zA-Z0-9_'\"=.-]*$"
AllowedCharacters ==
    WordChars
    \cup {" ", "@", "#", "$", "%", "&", "*", ":", "(", ")", "!", ",", "_", "'", "\"", "=", ".", "-"}

\* re.match(self.ALLOWED_CHARACTERS, name)
MatchesAllowedCharacters(name) == \A i \in 1..Len(name) : name[i] \in AllowedCharacters

\* the ids the tenant gives to a provider and to a data source
ProviderId(name) == <<"provider", name>>
DataSourceId(provider_id, name) == <<"data_source", provider_id, name>>

\* what the tenant lists for `filter: name eq "<name>"`
ProvidersNamed(tenant, name) ==
    IF name \in tenant.providers THEN <<[id |-> ProviderId(name), name |-> name]>> ELSE <<>>
DataSourcesNamed(tenant, name, provider_id) ==
    IF [provider_id |-> provider_id, name |-> name] \in tenant.data_sources
    THEN <<[id |-> DataSourceId(provider_id, name), name |-> name]>>
    ELSE <<>>

ProvidersPath == <<"providers", "custom">>
DataSourcesPath(provider_id) == <<"providers", "custom", provider_id, "datasources">>

\* mutant: the push is addressed with the names
push_path_by_name(provider, data_source) ==
    <<"providers", "custom", provider.name, "datasources", data_source.name, "push">>

\* f"/api/v1/providers/custom/{provider['id']}/datasources/{data_source['id']}:push"
push_path(provider, data_source) ==
    <<"providers", "custom", provider.id, "datasources", data_source.id, "push">>

\* the outcome of a lookup by name: the requests sent, the error raised if
\* any, and the entity found (None when the list is empty)
LookupOutcome(call) ==
    [requests |-> call.requests,
     error |-> IF call.kind = "raise" THEN Exc("OAAResponseError", "failed", PyNone)
               ELSE IF Len(call.value) > 1
               THEN Exc("OAAClientError", "Unexpected Results", PyNone)
               ELSE NoError,
     found |-> IF call.kind = "list" /\ Len(call.value) = 1 THEN call.value ELSE <<>>]

\* OAAClient.get_provider
get_provider(tenant, name, failed) ==
    LookupOutcome(api_loop("GET", ProvidersPath,
        <<IF failed THEN ErrorResponse ELSE PageResponse(ProvidersNamed(tenant, name), "false", "")>>,
        1, "", <<>>))

\* OAAClient.get_data_source
get_data_source(tenant, name, provider_id, failed) ==
    LookupOutcome(api_loop("GET", DataSourcesPath(provider_id),
        <<IF failed THEN ErrorResponse
          ELSE PageResponse(DataSourcesNamed(tenant, name, provider_id), "false", "")>>,
        1, "", <<>>))

\* the tenant after a data source was created
WithDataSource(tenant, name, provider_id) ==
    [tenant EXCEPT !.data_sources = @ \cup {[provider_id |-> provider_id, name |-> name]}]

\* the end of a client call: what it sent, what the tenant holds, how it ended
ClientOutcome(sent, tenant, error) == [requests |-> sent, server |-> tenant, error |-> error]

\* OAAClient.create_data_source: the tenant refuses a name it already holds
\* and a provider it does not hold
create_data_source_outcome(tenant, name, provider_id, failed) ==
    IF ~MatchesAllowedCharacters(name)
    THEN ClientOutcome(<<>>, tenant,
            Exc("ValueError", "Data source name contains invalid characters", PyNone))
    ELSE LET refused == \/ failed
                        \/ DataSourcesNamed(tenant, name, provider_id) # <<>>
                        \/ \A p \in tenant.providers : ProviderId(p) # provider_id
             call == api_loop("POST", DataSourcesPath(provider_id),
                        <<IF refused THEN ErrorResponse
                          ELSE ValueResponse(DataSourceId(provider_id, name))>>, 1, "", <<>>)
         IN IF refused
            THEN ClientOutcome(call.requests, tenant, Exc("OAAResponseError", "failed", PyNone))
            ELSE ClientOutcome(call.requests, WithDataSource(tenant, name, provider_id), NoError)

\* OAAClient.push_metadata from the size check on
push_outcome(sent, tenant, provider, data_source, oversize, failed) ==
    IF oversize
    THEN ClientOutcome(sent, tenant, Exc("OAAClientError", "OVERSIZE", PyNone))
    ELSE LET call == api_loop("POST", push_path(provider, data_source),
                        <<IF failed THEN ErrorResponse ELSE PlainResponse>>, 1, "", <<>>)
         IN ClientOutcome(sent \o call.requests, tenant,
               IF failed THEN Exc("OAAResponseError", "failed", PyNone) ELSE NoError)

\* OAAClient.push_metadata
push_metadata_outcome(provider_name, data_source_name, oversize, fails_at) ==
    LET p == get_provider(server, provider_name, fails_at = 1) IN
    IF p.error # NoError THEN ClientOutcome(p.requests, server, p.error)
    ELSE IF p.found = <<>>
    THEN ClientOutcome(p.requests, server, Exc("OAAClientError", "NO_PROVIDER", PyStr(provider_name)))
    ELSE
    LET provider == p.found[1]
        d == get_data_source(server, data_source_name, provider.id, fails_at = 2)
        sent == p.requests \o d.requests
    IN
    IF d.error # NoError THEN ClientOutcome(sent, server, d.error)
    ELSE IF d.found # <<>>
    THEN push_outcome(sent, server, provider, d.found[1], oversize, fails_at = 3)
    ELSE
    LET c == create_data_source_outcome(server, data_source_name, provider.id, fails_at = 3) IN
    IF c.error # NoError THEN ClientOutcome(sent \o c.requests, server, c.error)
    ELSE
    LET again == get_data_source(c.server, data_source_name, provider.id, fails_at = 4)
        sent_all == sent \o c.requests \o again.requests
    IN
    IF again.error # NoError THEN ClientOutcome(sent_all, c.server, again.error)
    ELSE push_outcome(sent_all, c.server, provider, again.found[1], oversize, fails_at = 5)

\* the variables after a client call
ClientStep(op, args, outcome) ==
    /\ requests' = outcome.requests
    /\ server' = outcome.server
    /\ result' = IF outcome.error = NoError THEN Return(op, args) ELSE Raise(op, args, outcome.error)
    /\ calls' = calls + 1
    /\ UNCHANGED <<appVars, idpVars, hrisVars, payload, dictVars>>

push_metadata(provider_name, data_source_name, oversize, fails_at) ==
    ClientStep("push_metadata",
               [provider_name |-> provider_name, data_source_name |-> data_source_name,
                oversize |-> oversize, fails_at |-> fails_at],
               push_metadata_outcome(provider_name, data_source_name, oversize, fails_at))

\* OAAClient.create_provider: the tenant refuses a name it already holds
create_provider(name) ==
    ClientStep("create_provider", [provider_name |-> name],
       IF ~MatchesAllowedCharacters(name)
       THEN ClientOutcome(<<>>, server,
               Exc("ValueError", "Provider name contains invalid characters", PyNone))
       ELSE LET refused == name \in server.providers
                call == api_loop("POST", ProvidersPath,
                           <<IF refused THEN ErrorResponse
                             ELSE ValueResponse(ProviderId(name))>>, 1, "", <<>>)
            IN IF refused
               THEN ClientOutcome(call.requests, server, Exc("OAAResponseError", "failed", PyNone))
               ELSE ClientOutcome(call.requests, [server EXCEPT !.providers = @ \cup {name}], NoError))

create_data_source(name, provider_id) ==
    ClientStep("create_data_source", [data_source_name |-> name, provider_id |-> provider_id],
               create_data_source_outcome(server, name, provider_id, FALSE))

\* client calls made in one run of SpecPush
MaxPushCalls == 3
\* requests one push_metadata call sends at most
MaxPushRequests == 5

s_a_slash_b == <<"a", "/", "b">>

ProviderNames == {s_x, s_y}
\* data source names: one allowed, one with a character that is not
DataSourceNames == {s_ab, s_a_slash_b}

PushCall ==
    \/ \E name \in ProviderNames : create_provider(name)
    \/ \E name \in DataSourceNames, provider \in ProviderNames :
          create_data_source(name, ProviderId(provider))
    \/ \E provider_name \in ProviderNames, data_source_name \in DataSourceNames,
          oversize \in BOOLEAN, fails_at \in 0..MaxPushRequests :
          push_metadata(provider_name, data_source_name, oversize, fails_at)

NextPush == calls < MaxPushCalls /\ PushCall

SpecPush == Init /\ [][NextPush]_vars

---------------------------------------------------------------------------
(* C26 *)

IsPush(request) == request.method = "POST" /\ request.api_path[Len(request.api_path)] = "push"
IsCreate(request) == request.method = "POST" /\ request.api_path[Len(request.api_path)] = "datasources"
Sent(Kind(_)) == { i \in 1..Len(requests') : Kind(requests'[i]) }

\* the provider is looked up first; without it the call fails with
\* NO_PROVIDER, creates nothing and pushes nothing
NoProviderFails ==
    LET args == result'.args IN
    /\ Len(requests') >= 1
    /\ requests'[1] = Request("GET", ProvidersPath, "")
    /\ (args.provider_name \notin server.providers /\ args.fails_at # 1) =>
          /\ ~result'.ok
          /\ result'.error.message = "NO_PROVIDER"
          /\ Len(requests') = 1
          /\ server' = server

\* with the provider present: the data source is created only when the
\* provider has none of that name, and one push goes to the resolved ids
PushesOnce ==
    LET args == result'.args
        provider_id == ProviderId(args.provider_name)
        present == DataSourcesNamed(server, args.data_source_name, provider_id) # <<>>
    IN
    /\ Sent(IsCreate) # {} => ~present
    /\ Cardinality(Sent(IsCreate)) <= 1
    /\ result'.ok =>
          /\ Sent(IsCreate) = {} <=> present
          /\ Sent(IsPush) = {Len(requests')}
          /\ requests'[Len(requests')].api_path =
                <<"providers", "custom", provider_id, "datasources",
                  DataSourceId(provider_id, args.data_source_name), "push">>
          /\ DataSourcesNamed(server', args.data_source_name, provider_id) # <<>>

C26_Original_Step ==
    result'.op = "push_metadata" =>
       /\ NoProviderFails
       /\ (result'.args.provider_name \in server.providers /\ result'.args.fails_at = 0) =>
             /\ PushesOnce
             /\ result'.ok

\* C26 as stated: without the provider push_metadata fails with NO_PROVIDER
\* and sends neither a create nor a push; otherwise it creates the data
\* source only when none of that name exists and then sends exactly one push
\* request.  (Violated: with the provider present the call can still end
\* before the push.)
C26_PushAlwaysSent == [][C26_Original_Step]_vars

C26_Step ==
    result'.op = "push_metadata" =>
       LET args == result'.args
           present == DataSourcesNamed(server, args.data_source_name,
                                       ProviderId(args.provider_name)) # <<>>
       IN
       /\ NoProviderFails
       /\ args.provider_name \in server.providers =>
             /\ PushesOnce
             /\ result'.ok <=>
                   /\ args.fails_at \notin 1..Len(requests')
                   /\ ~args.oversize
                   /\ present \/ MatchesAllowedCharacters(args.data_source_name)
             /\ ~result'.ok =>
                   /\ Sent(IsPush) \subseteq {Len(requests')}
                   /\ Sent(IsPush) # {} => args.fails_at = Len(requests')
                   /\ result'.error.type = "ValueError" =>
                         ~present /\ ~MatchesAllowedCharacters(args.data_source_name)
                   /\ result'.error.message = "OVERSIZE" => args.oversize

\* C26: push_metadata looks the provider up by name first and, when the
\* tenant has none of that name, fails with a NO_PROVIDER error without
\* creating a data source and without sending a push request.  Otherwise it
\* creates the data source only when the provider has none of that name, and
\* then sends exactly one push request, addressed to the resolved provider id
\* and data source id, as its last request, unless a request comes back with
\* an error, the data source has to be created and its name has a character
\* that is not allowed, or the payload is over 100 MB: then the call fails,
\* and no push request is sent except one that itself came back with the error.
C26_PushSentLast == [][C26_Step]_vars

\* push_metadata has found the provider, created the data source, looked it
\* up again and pushed
C26_Witness ==
    /\ result.op = "push_metadata" /\ result.ok
    /\ Len(requests) = 5
    /\ IsCreate(requests[3])
    /\ requests[4].method = "GET"
    /\ IsPush(requests[5])

---------------------------------------------------------------------------
(* Role merges: add_role called again and again for one role, with every  *)
(* apply_to_application argument and with assignment properties that      *)
(* repeat, replace and add keys                                           *)

\* add_role calls made in one run of SpecRoleMerge
MaxRoleMergeCalls == 3

\* assignment properties: none, the declared name with two values, the
\* name in another letter case, and both spellings together
MergePropertyArgs ==
    {EmptyDict,
     DictSet(EmptyDict, PyStr(s_ab), PyStr(s_x)),
     DictSet(EmptyDict, PyStr(s_ab), PyStr(s_y)),
     DictSet(EmptyDict, PyStr(s_AB), PyStr(s_y)),
     DictSet(DictSet(EmptyDict, PyStr(s_AB), PyStr(s_x)), PyStr(s_ab), PyStr(s_x))}

RoleMergeCall ==
    \E ref \in IdentityRefs, apply_to_application \in ApplyToApplicationArgs,
       assignment_properties \in MergePropertyArgs :
       Identity_add_role(ref, PyStr(s_admin), ResourcesList(<<ResourceObject(thing2)>>),
                         apply_to_application, assignment_properties)

NextRoleMerge == calls < MaxRoleMergeCalls /\ RoleMergeCall

SpecRoleMerge == InitGrant /\ [][NextRoleMerge]_vars

---------------------------------------------------------------------------
(* C27 *)

C27_Step ==
    LET args == result'.args
        held == IdentityOf(args.self).role_assignments
    IN
    (result'.op = "add_role" /\ result'.ok /\ DictContains(held, args.name)) =>
       LET old == DictGet(held, args.name)
           new == DictGet(IdentityAfter(args.self).role_assignments, args.name)
           given == args.assignment_properties
       IN
       /\ new.apply_to_application =
             (IF args.apply_to_application = PyNone THEN old.apply_to_application
              ELSE args.apply_to_application)
       /\ \A i \in 1..Len(given) :
             /\ DictContains(new.custom_properties, given[i].k)
             /\ DictGet(new.custom_properties, given[i].k) = given[i].v
       /\ \A i \in 1..Len(old.custom_properties) :
             ~DictContains(given, old.custom_properties[i].k) =>
                /\ DictContains(new.custom_properties, old.custom_properties[i].k)
                /\ DictGet(new.custom_properties, old.custom_properties[i].k)
                      = old.custom_properties[i].v
       /\ \A i \in 1..Len(new.custom_properties) :
             \/ DictContains(given, new.custom_properties[i].k)
             \/ DictContains(old.custom_properties, new.custom_properties[i].k)

\* C27: when Identity.add_role is called again for a role the identity
\* already holds, apply_to_application is replaced if and only if the new
\* argument is not None (True and False both replace, None keeps the stored
\* value), and the assignment properties are merged key by key: a key given
\* in the new call takes the new value, a key present only in the stored
\* record keeps its value.
C27_RoleMergeKeepsAndReplaces == [][C27_Step]_vars

\* a later add_role with apply_to_application None and a new key has left
\* the stored True and the stored key in place
C27_Witness ==
    /\ result.op = "add_role" /\ result.ok
    /\ result.args.apply_to_application = PyNone
    /\ result.args.assignment_properties = DictSet(EmptyDict, PyStr(s_AB), PyStr(s_y))
    /\ LET held == IdentityOf(result.args.self).role_assignments IN
       /\ DictContains(held, PyStr(s_admin))
       /\ DictGet(held, PyStr(s_admin)).apply_to_application = PyTrue
       /\ DictGet(held, PyStr(s_admin)).custom_properties =
             DictSet(DictSet(EmptyDict, PyStr(s_ab), PyStr(s_x)), PyStr(s_AB), PyStr(s_y))

---------------------------------------------------------------------------
(* Failing calls: the legacy add_access, and builder calls of every kind  *)
(* given arguments they reject, on aggregates that hold one entity of     *)
(* every kind                                                             *)

\* the identity after add_permission(permission, resources=list, apply_to_application)
add_permission_after(self, permission, list, apply_to_application) ==
    [self EXCEPT
       !.application_permissions =
          IF Truthy(apply_to_application) /\ ~ListContains(@, permission)
          THEN Append(@, permission) ELSE @,
       !.resource_permissions =
          IF list = <<>> THEN @
          ELSE IF DictContains(@, permission)
          THEN DictSet(@, permission, AppendMissing(DictGet(@, permission), ResourceKeys(list)))
          ELSE DictSet(@, permission, ResourceKeys(list))]

\* a `resource` argument that is a CustomResource object
IsCustomResource(resource) == "cls" \in DOMAIN resource /\ resource.cls = "CustomResource"

\* CustomApplication.add_access(identity, identity_type, permission, resource)
add_access(identity, identity_type, permission, resource) ==
    LET args == [name |-> identity, identity_type |-> identity_type,
                 permission |-> permission, resource |-> resource]
        given == IsCustomResource(resource) \/ Truthy(resource)
        apply_to_application == IF given THEN PyTrue ELSE PyFalse
        by_name == ~IsCustomResource(resource) /\ resource.t = "str"
        resource_error ==
            IF ~given THEN NoError
            ELSE IF by_name
            THEN IF CaseInsensitiveDict_contains(resources, resource) THEN NoError
                 ELSE Exc("KeyError", "{key}", resource)
            ELSE IF ~IsCustomResource(resource)
            THEN Exc("OAATemplateException",
                     "resource must be CustomResource or string of existing resource", PyNone)
            ELSE NoError
        resource_list ==
            IF ~given THEN <<>>
            ELSE IF by_name
            THEN <<ResourceObject(CaseInsensitiveDict_getitem(resources, resource))>>
            ELSE <<resource>>
        collection == IF identity_type = "local_user" THEN local_users ELSE local_groups
        granted == CaseInsensitiveDict_setitem(collection, identity,
                      add_permission_after(CaseInsensitiveDict_getitem(collection, identity),
                                           permission, resource_list, apply_to_application))
    IN
    /\ IF resource_error # NoError
       THEN /\ Step(Raise("add_access", args, resource_error))
            /\ UNCHANGED <<local_users, local_groups, idp_identities>>
       ELSE IF identity_type \in {"local_user", "local_group"}
       THEN IF ~CaseInsensitiveDict_contains(collection, identity)
            THEN /\ Step(Raise("add_access", args,
                           Exc("OAATemplateException", "{identity} not found", identity)))
                 /\ UNCHANGED <<local_users, local_groups, idp_identities>>
            ELSE IF NothingGranted(apply_to_application, resource_list)
            THEN /\ Step(Raise("add_access", args,
                           Exc("OAATemplateException",
                               "Must add permission to resource or application. resources cannot be empty and apply_to_application be False",
                               PyNone)))
                 /\ UNCHANGED <<local_users, local_groups, idp_identities>>
            ELSE /\ local_users' = IF identity_type = "local_user" THEN granted ELSE local_users
                 /\ local_groups' = IF identity_type = "local_group" THEN granted ELSE local_groups
                 /\ Step(Return("add_access", args))
                 /\ UNCHANGED idp_identities
       ELSE IF identity_type = "idp"
       THEN \* add_permission is called with the keyword `resource`, which it does not have
            /\ idp_identities' =
                  IF CaseInsensitiveDict_contains(idp_identities, identity) THEN idp_identities
                  ELSE CaseInsensitiveDict_setitem(idp_identities, identity, IdPIdentity(identity))
            /\ Step(Raise("add_access", args,
                      Exc("TypeError", "add_permission() got an unexpected keyword argument 'resource'",
                          PyNone)))
            /\ UNCHANGED <<local_users, local_groups>>
       ELSE /\ Step(Return("add_access", args))
            /\ UNCHANGED <<local_users, local_groups, idp_identities>>
    /\ UNCHANGED <<local_roles, access_creds, resources, custom_permissions, app_tags,
                   app_properties, property_definitions>>
    /\ UNCHANGED <<idpVars, hrisVars>>

\* calls made in one run of SpecFrame
MaxFrameCalls == 2

\* `resource` arguments of add_access: none, the name of a resource, a name
\* no resource has, a resource, and a number
AccessResourceArgs ==
    {PyNone, PyStr(s_thing2), PyStr(s_zz), ResourceObject(thing2), PyInt(<<"7">>)}

FrameCall ==
    \/ \E identity \in {PyStr(s_Bob), PyStr(s_zz)},
          identity_type \in {"local_user", "local_group", "idp", "local_role"},
          resource \in AccessResourceArgs :
          add_access(identity, identity_type, PyStr(s_view), resource)
    \/ \E group_identities \in {PyList(<<PyStr(s_x), PyStr(s_Bob)>>), PyList(<<PyStr(s_Bob)>>),
                                PyList(<<PyStr(s_x)>>), PyStr(s_x)} :
          CustomIdPGroup_add_groups(PyStr(s_bob), group_identities)
    \/ \E unique_id \in {PyStr(s_Al), PyStr(s_Bob)}, name \in FieldArgs :
          HRISProvider_add_employee(unique_id, name, PyStr(s_x), PyStr(s_x), PyStr(s_x),
                                    PyTrue, PyStr(s_x))
    \/ \E name \in {PyStr(s_Bob), PyStr(s_x)} : add_local_user(name, PyNone)
    \/ \E ref \in IdentityRefs, assignment_properties \in AssignmentPropertyArgs :
          Identity_add_role(ref, PyStr(s_admin), ResourcesList(<<ResourceObject(thing2)>>),
                            PyNone, assignment_properties)
    \/ \E ref \in IdentityRefs, resources_arg \in {ResourcesNone, ResourcesNotList(ResourceObject(thing2)),
                                                  ResourcesList(<<ResourceObject(thing2)>>)} :
          Identity_add_permission(ref, PyStr(s_view), resources_arg, PyFalse)
    \/ \E ref \in IdentityRefs \cup {EntityRef("application", PyNone, <<>>)},
          key \in {PyStr(s_ab), PyStr(s_a_space_b)} :
          Entity_add_tag(ref, key, PyStr(<<>>))
    \/ \E ref \in HRISEntityRefs, property_name \in SetPropertyNames :
          HRIS_set_property(ref, property_name, PyStr(s_x), FALSE)
    \/ \E ref \in IdPEntityRefs, property_name \in SetPropertyNames :
          IdP_set_property(ref, property_name, PyStr(s_x), FALSE)

NextFrame == calls < MaxFrameCalls /\ FrameCall

SpecFrame == InitPayload /\ [][NextFrame]_vars

---------------------------------------------------------------------------
(* C28 *)

\* C28 as stated: a builder operation that fails leaves the whole aggregate
\* as it was before the call.  (Violated: CustomIdPGroup.add_groups keeps the
\* groups it added before the element it fails on, and the legacy add_access
\* keeps the IdP identity it created before it fails.)
C28_FailedCallChangesNothing == [][~result'.ok => NothingChanged]_vars

\* every failing call other than those two leaves the aggregates as they were
C28_OtherFailedCallsChangeNothing ==
    [][(~result'.ok /\ result'.op \notin {"CustomIdPGroup.add_groups", "add_access"})
          => NothingChanged]_vars

\* add_access fails without a change except where it has created the IdP identity
C28_AddAccessCreatesIdentity ==
    [][(~result'.ok /\ result'.op = "add_access" /\ ~NothingChanged)
          => /\ result'.args.identity_type = "idp"
             /\ result'.error.type = "TypeError"
             /\ ~CaseInsensitiveDict_contains(idp_identities, result'.args.name)
             /\ CaseInsensitiveDict_contains(idp_identities', result'.args.name)]_vars


---------------------------------------------------------------------------
(* Letter case: properties declared and set under names that differ in    *)
(* case only, and the payloads that result                                *)

\* calls made in one run of SpecCase
MaxCaseCalls == 3

\* one property name in two spellings
CaseNames == {PyStr(s_ab), PyStr(s_AB)}

CaseCall ==
    \/ get_payload
    \/ CustomIdPProvider_get_payload
    \/ HRISProvider_get_payload
    \/ \E namespace \in ApplicationNamespaces, name \in CaseNames :
          define_property(namespace, name, PropertyType("STRING"))
    \/ \E name \in CaseNames : define_resource_property(PyStr(<<"t">>), name, PropertyType("STRING"))
    \/ \E namespace \in IdPNamespaces, name \in CaseNames :
          IdP_define_property(namespace, name, PropertyType("STRING"))
    \/ \E namespace \in HRISNamespaces, name \in CaseNames :
          HRIS_define_property(namespace, name, PropertyType("STRING"))
    \/ \E property_name \in CaseNames :
          CustomApplication_set_property(property_name, PyStr(s_x), FALSE)
    \/ \E ref \in IdentityRefs, property_name \in CaseNames :
          Identity_set_property(ref, property_name, PyStr(s_x), FALSE)
    \/ \E key \in {local_roles[i].k : i \in 1..Len(local_roles)}, property_name \in CaseNames :
          LocalRole_set_property(key, property_name, PyStr(s_x), FALSE)
    \/ \E path \in ResourcePaths(resources), property_name \in CaseNames :
          CustomResource_set_property(path, property_name, PyStr(s_x), FALSE)
    \/ \E ref \in IdPEntityRefs, property_name \in CaseNames :
          IdP_set_property(ref, property_name, PyStr(s_x), FALSE)
    \/ \E ref \in HRISEntityRefs, property_name \in CaseNames :
          HRIS_set_property(ref, property_name, PyStr(s_x), FALSE)

NextCase == calls < MaxCaseCalls /\ CaseCall

SpecCase == InitPayload /\ [][NextCase]_vars

---------------------------------------------------------------------------
(* C29 *)

\* the keys of the custom_properties of one serialized entity
PropertyKeys(entry) ==
    IF "custom_properties" \in DOMAIN entry
    THEN {entry.custom_properties[i].k : i \in 1..Len(entry.custom_properties)}
    ELSE {}

\* the property names a serialized registry emits under `namespace`
EmittedNames(definition, namespace) ==
    IF namespace \in DOMAIN definition
    THEN {definition[namespace][i].k : i \in 1..Len(definition[namespace])}
    ELSE {}

\* the property names a serialized application registry emits for `resource_type`
EmittedResourceNames(definition, resource_type) ==
    IF "resources" \in DOMAIN definition
    THEN UNION { EmittedNames(definition.resources[i], "properties") :
                 i \in {j \in 1..Len(definition.resources) :
                          definition.resources[j].resource_type = resource_type} }
    ELSE {}

\* every entry of the collection `field` of `doc`, where it has one
SerializedIn(doc, field) ==
    IF field \in DOMAIN doc THEN {doc[field][i] : i \in 1..Len(doc[field])} ELSE {}

\* the serialized resource and the sub-resources below it
RECURSIVE ResourceEntries(_)
ResourceEntries(entry) ==
    {entry} \cup UNION { ResourceEntries(sub) : sub \in SerializedIn(entry, "sub_resources") }

\* the pairs <<keys of an entity, names emitted for its namespace>> of the
\* payload last produced
KeysAndNames ==
    LET definition == payload.custom_property_definition
    IN
    IF "applications" \in DOMAIN payload
    THEN LET app == payload.applications[1]
             names == definition.applications[1]
         IN {<<PropertyKeys(app), EmittedNames(names, "application_properties")>>}
            \cup {<<PropertyKeys(e), EmittedNames(names, "local_user_properties")>> :
                    e \in SerializedIn(app, "local_users")}
            \cup {<<PropertyKeys(e), EmittedNames(names, "local_group_properties")>> :
                    e \in SerializedIn(app, "local_groups")}
            \cup {<<PropertyKeys(e), EmittedNames(names, "local_role_properties")>> :
                    e \in SerializedIn(app, "local_roles")}
            \cup {<<PropertyKeys(e), EmittedNames(names, "local_access_creds_properties")>> :
                    e \in SerializedIn(app, "local_access_creds")}
            \cup {<<PropertyKeys(e), EmittedResourceNames(names, e.resource_type)>> :
                    e \in UNION {ResourceEntries(r) : r \in SerializedIn(app, "resources")}}
    ELSE IF "idp_type" \in DOMAIN payload
    THEN {<<PropertyKeys(e), EmittedNames(definition, "domain_properties")>> :
             e \in SerializedIn(payload, "domains")}
         \cup {<<PropertyKeys(e), EmittedNames(definition, "user_properties")>> :
             e \in SerializedIn(payload, "users")}
         \cup {<<PropertyKeys(e), EmittedNames(definition, "group_properties")>> :
             e \in SerializedIn(payload, "groups")}
         \cup {<<PropertyKeys(e), EmittedNames(definition, "app_properties")>> :
             e \in SerializedIn(payload, "apps")}
    ELSE IF "hris_type" \in DOMAIN payload
    THEN {<<PropertyKeys(e), EmittedNames(definition, "employee_properties")>> :
             e \in SerializedIn(payload, "employees")}
         \cup {<<PropertyKeys(e), EmittedNames(definition, "group_properties")>> :
             e \in SerializedIn(payload, "groups")}
    ELSE {}

\* C29 as stated: in every application, IdP and HRIS payload, each key of an
\* entity's custom_properties is, character for character, a property name
\* the payload's custom_property_definition emits for the entity's namespace
\* (for a resource, under its type).  (Violated: set_property compares the
\* names lower-cased and stores the key as it was given.)
C29_PropertyKeysAreEmittedNames ==
    \A pair \in KeysAndNames : pair[1] \subseteq pair[2]

\* what holds instead: every key is an emitted name up to letter case
C29_PropertyKeysAreEmittedNamesIgnoringCase ==
    \A pair \in KeysAndNames :
       \A key \in pair[1] : \E name \in pair[2] : Lower(name.v) = Lower(key.v)

\* payloads of the three kinds in which an entity's key differs from the
\* emitted name in case only
C29_ApplicationKeyInOtherCase ==
    /\ "applications" \in DOMAIN payload
    /\ \E pair \in KeysAndNames : PyStr(s_AB) \in pair[1] /\ pair[2] = {PyStr(s_ab)}
C29_IdPKeyInOtherCase ==
    /\ "idp_type" \in DOMAIN payload
    /\ \E pair \in KeysAndNames : PyStr(s_AB) \in pair[1] /\ pair[2] = {PyStr(s_ab)}
C29_HRISKeyInOtherCase ==
    /\ "hris_type" \in DOMAIN payload
    /\ \E pair \in KeysAndNames : PyStr(s_AB) \in pair[1] /\ pair[2] = {PyStr(s_ab)}


---------------------------------------------------------------------------
(* Identifiers: entities added under names and unique ids that are        *)
(* strings or numbers, and the application payload that results           *)

\* calls made in one run of SpecIds
MaxIdCalls == 3

s_7 == <<"7">>

\* names, and unique ids: none, the string '7' and the integer 7
IdNames == {PyStr(s_x), PyStr(s_7)}
IdUniqueIds == {PyNone, PyStr(s_7), PyInt(s_7)}

IdCall ==
    \/ get_payload
    \/ \E name \in IdNames, unique_id \in IdUniqueIds :
          \/ add_local_user(name, unique_id)
          \/ add_local_group(name, unique_id)
          \/ add_local_role(name, EmptyList, unique_id)
          \/ add_access_cred(unique_id, name)
          \/ add_resource(name, PyStr(<<"t">>), unique_id)
          \/ \E path \in ResourcePaths(resources) :
                add_sub_resource(path, name, PyStr(<<"t">>), unique_id)

NextIds == calls < MaxIdCalls /\ IdCall

SpecIds == Init /\ [][NextIds]_vars

---------------------------------------------------------------------------
(* C30 *)

\* the identifier of a serialized entry: id when present, otherwise name
SerializedIdentifier(entry) == IF "id" \in DOMAIN entry THEN entry.id ELSE entry.name

\* no two entries of the serialized list have the same identifier
IdentifiersDiffer(entries) ==
    \A i, j \in 1..Len(entries) :
       i # j => SerializedIdentifier(entries[i]) # SerializedIdentifier(entries[j])

\* the serialized lists of an application: its five collections and the
\* sub_resources of every resource
SerializedCollections(app) ==
    {app.local_users, app.local_groups, app.local_roles, app.local_access_creds, app.resources}
    \cup {e.sub_resources :
            e \in {r \in UNION {ResourceEntries(app.resources[i]) : i \in 1..Len(app.resources)} :
                     "sub_resources" \in DOMAIN r}}

\* C30 as stated: in every application payload no two entries of one
\* collection serialize to the same identifier, for identifiers that are
\* strings or numbers.  (Violated: the collections are keyed by the identifier
\* as given, and the entity keeps str(unique_id).)
C30_SerializedIdentifiersDiffer ==
    "applications" \in DOMAIN payload =>
       \A entries \in SerializedCollections(payload.applications[1]) : IdentifiersDiffer(entries)

\* every key of the dict is a string
StringKeyed(d) == \A i \in 1..Len(d) : d[i].k.t = "str"

\* what holds instead: the entries of a collection whose entities were all
\* added under string identifiers serialize to different identifiers
C30_StringIdentifiersDiffer ==
    "applications" \in DOMAIN payload =>
       LET app == payload.applications[1] IN
       /\ StringKeyed(local_users) => IdentifiersDiffer(app.local_users)
       /\ StringKeyed(local_groups) => IdentifiersDiffer(app.local_groups)
       /\ StringKeyed(local_roles) => IdentifiersDiffer(app.local_roles)
       /\ StringKeyed(access_creds) => IdentifiersDiffer(app.local_access_creds)
       /\ StringKeyed(resources) => IdentifiersDiffer(app.resources)

\* a payload with two local users whose id is '7'
C30_TwoUsersWithOneId ==
    /\ "applications" \in DOMAIN payload
    /\ Len(payload.applications[1].local_users) = 2
    /\ \A i \in 1..2 : SerializedIdentifier(payload.applications[1].local_users[i]) = PyStr(s_7)

====
